---- MODULE Spec2Model ----
(***************************************************************************)
(* State-machine model of the COSMIC Hue applet (src/src/app.rs,           *)
(* src/src/config.rs): AppModel::update, one action per Message variant,   *)
(* together with the tasks the handlers return to the runtime (delayed     *)
(* commits, fetches, pushes) and the bridge they talk to.                  *)
(*                                                                         *)
(* Conventions                                                             *)
(*   Option<T>      None is <<>>, Some(x) is <<x>>.                        *)
(*   String names   sequences of character codes, so that to_lowercase and *)
(*                  the ordering of sort_by are computed, not assumed.     *)
(*   f32 slider     a brightness is kept in halves (3 stands for 1.5), so  *)
(*                  that `as u8` truncates.                                *)
(*   palette::Hsv   hue in tenths of a degree, saturation and value in     *)
(*                  thousandths.                                           *)
(*   RGB channel    the exact rational value of the channel, written       *)
(*                  <<a, b>> for (a + b/65535) / 254^2; f32 rounding is    *)
(*                  not modelled.                                          *)
(***************************************************************************)
EXTENDS Bags, FiniteSets, Integers, Sequences, TLC

VARIABLES
    config,                       \* Config { bridge_ip, username }
    popup,                        \* AppModel.popup: Option<Id>
    lights,                       \* AppModel.lights: Vec<LightVm>
    groups,                       \* AppModel.groups: Vec<GroupVm>
    scenes,                       \* AppModel.scenes: Vec<SceneVm>
    color_picker_popup,           \* AppModel.color_picker_popup: Option<Id>
    more_menu_popup,              \* AppModel.more_menu_popup: Option<Id>
    active_color_picker_item,     \* Option<(String, String)>
    last_active_color_picker_item,\* Option<String>
    color_button_rectangles,      \* HashMap<u32, Rectangle>: the ids that have a rectangle
    pending_light_brightness,     \* HashMap<String, (f32, u64)>
    pending_group_brightness,     \* HashMap<String, (f32, u64)>
    pending_light_color,          \* HashMap<String, ((u16, u8, u8), u64)>
    pending_group_color,          \* HashMap<String, ((u16, u8, u8), u64)>
    debounce_counter,             \* AppModel.debounce_counter: u64
    panicked,                     \* an unwrap() of None has aborted the process
    is_scanning,                  \* AppModel.is_scanning: bool
    last_discovery,               \* AppModel.last_discovery: Option<Result<IpAddr, String>>
    lights_menu_expanded,         \* AppModel.lights_menu_expanded: bool
    groups_menu_expanded,         \* AppModel.groups_menu_expanded: bool
    scenes_menu_expanded,         \* AppModel.scenes_menu_expanded: bool
    tasks,                        \* the Tasks handed to the runtime and not yet resolved (a bag)
    remote,                       \* the bridge: per key, the last edit push that took effect
    last,                         \* history: the message update() handled last and the Task it returned
    burst                         \* history: per key, the current run of edits and its pushes

vars == <<config, popup, lights, groups, scenes, color_picker_popup, more_menu_popup,
          active_color_picker_item, last_active_color_picker_item, color_button_rectangles,
          pending_light_brightness, pending_group_brightness,
          pending_light_color, pending_group_color, debounce_counter,
          panicked, is_scanning, last_discovery,
          lights_menu_expanded, groups_menu_expanded, scenes_menu_expanded,
          tasks, remote, last, burst>>

store == <<lights, groups, scenes>>
menus == <<lights_menu_expanded, groups_menu_expanded, scenes_menu_expanded>>
pendings == <<pending_light_brightness, pending_group_brightness,
              pending_light_color, pending_group_color>>
picker == <<color_picker_popup, active_color_picker_item, last_active_color_picker_item,
            color_button_rectangles>>
pairing == <<is_scanning, last_discovery>>

-----------------------------------------------------------------------------
(* Option<T> *)

None == <<>>
Some(x) == <<x>>
IsSome(o) == o # <<>>
Unwrap(o) == o[1]

-----------------------------------------------------------------------------
(* Bounds of the model *)

\* edits accepted in one behaviour (caps debounce_counter)
MaxEdits == 2
\* unresolved Tasks the runtime holds at once
MaxTasks == 2

-----------------------------------------------------------------------------
(* Program constants *)

\* settle delay of a commit, in milliseconds
SettleDelayMs == 300
\* delay of the refresh after a scene activation, in seconds
ConvergenceDelaySecs == 10

-----------------------------------------------------------------------------
(* Strings as character codes: "Zeta" is <<90, 101, 116, 97>> *)

to_lowercase(name) ==
    [i \in 1..Len(name) |->
        IF name[i] >= 65 /\ name[i] <= 90 THEN name[i] + 32 ELSE name[i]]

\* Ord for String: lexicographic on the codes
RECURSIVE StrLess(_, _)
StrLess(a, b) ==
    IF b = <<>> THEN FALSE
    ELSE IF a = <<>> THEN TRUE
    ELSE IF a[1] < b[1] THEN TRUE
    ELSE IF a[1] > b[1] THEN FALSE
    ELSE StrLess(Tail(a), Tail(b))

\* fault: the closure compares the names as they are
NameLess_case_sensitive(x, y) == StrLess(x.name, y.name)

\* the comparison closure of the three sort_by calls
NameLess(x, y) == StrLess(to_lowercase(x.name), to_lowercase(y.name))

RECURSIVE InsertSorted(_, _)
InsertSorted(s, x) ==
    IF s = <<>> THEN <<x>>
    ELSE IF NameLess(x, s[1]) THEN <<x>> \o s
    ELSE <<s[1]>> \o InsertSorted(Tail(s), x)

\* slice::sort_by is stable: equal keys keep their order
RECURSIVE sort_by(_)
sort_by(s) ==
    IF s = <<>> THEN <<>>
    ELSE InsertSorted(sort_by(SubSeq(s, 1, Len(s) - 1)), s[Len(s)])

-----------------------------------------------------------------------------
(* Numeric conversions *)

\* f32 `as u8` of a value kept in halves: truncate toward zero, saturate
as_u8(halves) ==
    LET t == halves \div 2
    IN  IF t < 0 THEN 0 ELSE IF t > 255 THEN 255 ELSE t

\* hsv_palette_to_hsv_lib: (deg / 360 * 65535) as u16, (s * 254) as u8, (v * 254) as u8
hsv_palette_to_hsv_lib(color) ==
    LET h == (color.hue * 65535) \div 3600
        s == (color.saturation * 254) \div 1000
        v == (color.value * 254) \div 1000
    IN  << IF h > 65535 THEN 65535 ELSE h,
           IF s > 255 THEN 255 ELSE s,
           IF v > 255 THEN 255 ELSE v >>

Black == << <<0, 0>>, <<0, 0>>, <<0, 0>> >>

\* fault: h is truncated to whole degrees and the ranges are closed, (0..=60) first
hsv_to_rgb_whole_degrees(hue, saturation, brightness) ==
    IF IsSome(hue) /\ IsSome(saturation) /\ IsSome(brightness) THEN
        LET hu  == Unwrap(hue)
            sat == Unwrap(saturation)
            bri == Unwrap(brightness)
            k   == (6 * hu) % 131070
            t   == 65535 - (IF k >= 65535 THEN k - 65535 ELSE 65535 - k)
            m   == bri * (254 - sat)
            bt  == bri * t
            q1  == bt \div 65535
            r1  == bt % 65535
            cm  == << bri * 254, 0 >>
            xm  == << m + sat * q1 + (sat * r1) \div 65535, (sat * r1) % 65535 >>
            zm  == << m, 0 >>
            h   == (360 * hu) \div 65535
        IN  IF h <= 60 THEN <<cm, xm, zm>>
            ELSE IF h <= 120 THEN <<xm, cm, zm>>
            ELSE IF h <= 180 THEN <<zm, cm, xm>>
            ELSE IF h <= 240 THEN <<zm, xm, cm>>
            ELSE IF h <= 300 THEN <<xm, zm, cm>>
            ELSE <<cm, zm, xm>>
    ELSE <<<<0, 0>>, <<0, 0>>, <<0, 0>>>>

\* hsv_to_rgb; a channel <<a, b>> is (a + b/65535) / 254^2
hsv_to_rgb(hue, saturation, brightness) ==
    IF IsSome(hue) /\ IsSome(saturation) /\ IsSome(brightness) THEN
        LET hu  == Unwrap(hue)
            sat == Unwrap(saturation)
            bri == Unwrap(brightness)
            \* h / 60 = 6 * hu / 65535; t / 65535 = 1 - |(h / 60) % 2 - 1|
            k   == (6 * hu) % 131070
            t   == 65535 - (IF k >= 65535 THEN k - 65535 ELSE 65535 - k)
            m   == bri * (254 - sat)                 \* m = v - c, times 254^2
            bt  == bri * t
            q1  == bt \div 65535
            r1  == bt % 65535
            \* c * t / 65535 = sat * bri * t / 65535, without leaving 32 bits
            cm  == << bri * 254, 0 >>                \* c + m
            xm  == << m + sat * q1 + (sat * r1) \div 65535, (sat * r1) % 65535 >>
            zm  == << m, 0 >>
            sector == (6 * hu) \div 65535            \* h in [60 * sector, 60 * sector + 60)
        IN  CASE sector = 0 -> <<cm, xm, zm>>
              [] sector = 1 -> <<xm, cm, zm>>
              [] sector = 2 -> <<zm, cm, xm>>
              [] sector = 3 -> <<zm, xm, cm>>
              [] sector = 4 -> <<xm, zm, cm>>
              [] OTHER      -> <<cm, zm, xm>>
    ELSE Black

hsv_palette_to_rgb(color) ==
    LET c == hsv_palette_to_hsv_lib(color)
    IN  hsv_to_rgb(Some(c[1]), Some(c[2]), Some(c[3]))

-----------------------------------------------------------------------------
(* What the bridge can answer to a fetch (huelib::resource::Light, Group, Scene) *)

HueLight(id, name, on, brightness, hue, saturation) ==
    [id |-> id, name |-> name,
     state |-> [on |-> on, brightness |-> brightness, hue |-> hue, saturation |-> saturation]]
HueGroup(id, name, members, state) ==
    [id |-> id, name |-> name, lights |-> members, state |-> state]
HueScene(id, name, group) == [id |-> id, name |-> name, group |-> group]

\* "Zeta" and "alpha": the fetch order is not the display order
LightsA ==
    << HueLight("1", <<90, 101, 116, 97>>, Some(TRUE), Some(100), Some(21845), Some(254)),
       HueLight("2", <<97, 108, 112, 104, 97>>, Some(FALSE), Some(254), Some(0), Some(127)) >>
\* "Beta": light 1 is gone and light 2 reports no state
LightsB == << HueLight("2", <<66, 101, 116, 97>>, None, None, None, None) >>

\* "room" with two members, and "Attic" with none and no state
GroupsA ==
    << HueGroup("1", <<114, 111, 111, 109>>, <<"1", "2">>, Some([any_on |-> TRUE])),
       HueGroup("2", <<65, 116, 116, 105, 99>>, <<>>, None) >>
\* "den": the first member is not a light of the bridge
GroupsB == << HueGroup("1", <<100, 101, 110>>, <<"3", "2">>, None) >>

\* "Relax" targets group 1, "bright" has no group
ScenesA ==
    << HueScene("s1", <<82, 101, 108, 97, 120>>, Some("1")),
       HueScene("s2", <<98, 114, 105, 103, 104, 116>>, None) >>

FetchedLights == {LightsA, LightsB}
FetchedGroups == {GroupsA, GroupsB}
FetchedScenes == {ScenesA}

\* the ids, values and colours the interface submits
MsgIds == {"1", "2"}
\* 1.5 and 200.5 on the slider
Brightnesses == {3, 401}
NoColor == [hue |-> 0, saturation |-> 0, value |-> 0]
\* 120.05 degrees at full saturation, and a pale 300 degrees
Colors == {[hue |-> 1200, saturation |-> 1000, value |-> 1000],
           [hue |-> 3000, saturation |-> 500, value |-> 999]}

-----------------------------------------------------------------------------
(* Tasks: what update() returns to the runtime *)

\* huelib StateModifier: the attributes a push overrides
NoMod == [on |-> None, brightness |-> None, hue |-> None, saturation |-> None, scene |-> None]
with_on(m, v) == [m EXCEPT !.on = Some(v)]
with_brightness(m, v) == [m EXCEPT !.brightness = Some(v)]
with_hue(m, v) == [m EXCEPT !.hue = Some(v)]
with_saturation(m, v) == [m EXCEPT !.saturation = Some(v)]
with_scene(m, v) == [m EXCEPT !.scene = Some(v)]

\* A task: op is what the future does, `then` the message its result is wrapped in.
\* cls and cnt record, for a push, the pending map and the edit it commits.
Task(op, delay, then, id, cnt, mod, res, cls) ==
    [op |-> op, delay |-> delay, then |-> then, id |-> id, cnt |-> cnt,
     mod |-> mod, res |-> res, cls |-> cls]

\* Task::perform(async {}, |_| Action::App(msg))
Post(msg) == Task("post", 0, msg, "", 0, NoMod, "ok", "")
\* fault: the future captures the counter as it was before the increment
CommitTimer_counter_before(msg, id, counter) ==
    [op |-> "sleep", delay |-> SettleDelayMs, then |-> msg, id |-> id, cnt |-> counter - 1,
     mod |-> NoMod, res |-> "ok", cls |-> ""]

\* Task::perform(async { sleep(300 ms); (id, counter) }, |(id, cnt)| Action::App(msg(id, cnt)))
CommitTimer(msg, id, counter) == Task("sleep", SettleDelayMs, msg, id, counter, NoMod, "ok", "")
\* fault: the reload is posted at once instead of after the convergence delay
RefreshTimer_immediate(msg) == Post(msg)

\* Task::perform(async { sleep(10 s) }, |_| Action::App(msg))
RefreshTimer(msg) == Task("sleep", ConvergenceDelaySecs * 1000, msg, "", 0, NoMod, "ok", "")
\* Task::perform(async { bridge.get_all_*() }, |result| Action::App(msg(result)))
Fetch(op, msg) == Task(op, 0, msg, "", 0, NoMod, "inflight", "")
\* fault: every push waits for the settle delay before it is sent
Push_after_settle(op, id, mod, msg, counter, cls) ==
    Task(op, SettleDelayMs, msg, id, counter, mod, "ok", cls)

\* Task::perform(async { bridge.set_*_state(id, modifier) }, |result| Action::App(msg(result)))
Push(op, id, mod, msg, counter, cls) == Task(op, 0, msg, id, counter, mod, "inflight", cls)
\* platform commands, which resolve without a message
PopupCommand(op) == Task(op, 0, "", "", 0, NoMod, "ok", "")

One(t) == SetToBag({t})
Without(t) == tasks (-) One(t)
NTasks == BagCardinality(tasks)

FetchOps == {"get_all_lights", "get_all_groups", "get_all_scenes"}
PushOps == {"set_light_state", "set_group_state"}
IsFetch(t) == t.op \in FetchOps
IsPush(t) == t.op \in PushOps

-----------------------------------------------------------------------------
(* std::collections::HashMap, as the set of its entries *)

HashMapGet(m, id) ==
    IF \E e \in m : e.id = id THEN Some(CHOOSE e \in m : e.id = id) ELSE None
\* fault: entry(id).or_insert(..) in place of insert(..), which keeps the first edit
HashMapInsert_or_insert(m, id, value, counter) ==
    IF \E e \in m : e.id = id THEN m
    ELSE m \cup {[id |-> id, value |-> value, counter |-> counter]}
\* fault: the map is rebuilt around the new entry, which drops the other ids
HashMapInsert_rebuilt(m, id, value, counter) ==
    {[id |-> id, value |-> value, counter |-> counter]}
HashMapInsert(m, id, value, counter) ==
    {e \in m : e.id # id} \cup {[id |-> id, value |-> value, counter |-> counter]}
HashMapRemove(m, id) == {e \in m : e.id # id}

-----------------------------------------------------------------------------
(* Config and get_bridge *)

get_bridge_ip(c) == c.bridge_ip
get_username(c) == c.username

\* fault: unwrap_or_default in place of the two early returns
get_bridge_unwrap_or_default(c) ==
    Some(<<IF c.bridge_ip = None THEN "0.0.0.0" ELSE Unwrap(c.bridge_ip),
           IF c.username = None THEN "" ELSE Unwrap(c.username)>>)

get_bridge(c) ==
    IF get_bridge_ip(c) = None THEN None
    ELSE IF get_username(c) = None THEN None
    ELSE Some(<<Unwrap(get_bridge_ip(c)), Unwrap(get_username(c))>>)

-----------------------------------------------------------------------------
(* The view model: Vec::iter().find and the in-place updates of the handlers *)

\* position of the first element with this id, 0 when there is none
Find(s, id) ==
    IF \E i \in 1..Len(s) : s[i].id = id
    THEN CHOOSE i \in 1..Len(s) : s[i].id = id /\ \A j \in 1..(i - 1) : s[j].id # id
    ELSE 0

\* the lights a for-loop over group.lights reaches with find
Members(ls, g) == {i \in 1..Len(ls) : \E j \in 1..Len(g.lights) : Find(ls, g.lights[j]) = i}

\* fault: unwrap_or_default() on the three components of the state
LightVm_unwrap_or_default(light) ==
    LET or0(o) == IF IsSome(o) THEN o ELSE Some(0)
    IN  [id |-> light.id, name |-> light.name, on |-> light.state.on,
         brightness |-> light.state.brightness,
         color |-> Some(hsv_to_rgb(or0(light.state.hue), or0(light.state.saturation),
                                   or0(light.state.brightness)))]

LightVm(light) ==
    [id |-> light.id, name |-> light.name, on |-> light.state.on,
     brightness |-> light.state.brightness,
     color |-> Some(hsv_to_rgb(light.state.hue, light.state.saturation, light.state.brightness))]

\* fault: a group fetched without state is on when a member light is on
GroupVm_any_member_on(group, ls) ==
    LET first == IF group.lights = <<>> THEN 0 ELSE Find(ls, group.lights[1])
    IN  [id |-> group.id, name |-> group.name,
         on |-> IF IsSome(group.state) THEN Some(Unwrap(group.state).any_on)
                ELSE Some(\E i \in Members(ls, group) : ls[i].on = Some(TRUE)),
         brightness |-> IF first # 0 THEN ls[first].brightness ELSE None,
         color |-> IF first # 0 THEN ls[first].color ELSE Some(Black),
         lights |-> group.lights]

\* fault: the group mirrors the last of its members instead of the first
GroupVm_last_member(group, ls) ==
    LET first == IF group.lights = <<>> THEN 0 ELSE Find(ls, group.lights[Len(group.lights)])
    IN  [id |-> group.id, name |-> group.name,
         on |-> IF IsSome(group.state) THEN Some(Unwrap(group.state).any_on) ELSE None,
         brightness |-> IF first # 0 THEN ls[first].brightness ELSE None,
         color |-> IF first # 0 THEN ls[first].color ELSE Some(Black),
         lights |-> group.lights]

GroupVm(group, ls) ==
    LET first == IF group.lights = <<>> THEN 0 ELSE Find(ls, group.lights[1])
    IN  [id |-> group.id, name |-> group.name,
         on |-> IF IsSome(group.state) THEN Some(Unwrap(group.state).any_on) ELSE None,
         brightness |-> IF first # 0 THEN ls[first].brightness ELSE None,
         color |-> IF first # 0 THEN ls[first].color ELSE Some(Black),
         lights |-> group.lights]

SceneVm(scene) ==
    [id |-> scene.id, name |-> scene.name,
     group |-> IF IsSome(scene.group) THEN Unwrap(scene.group) ELSE ""]

Map(f(_), s) == [i \in 1..Len(s) |-> f(s[i])]

-----------------------------------------------------------------------------
(* History variables *)

PendingMaps == {"light_brightness", "group_brightness", "light_color", "group_color"}
\* a key is a class of edits and the id of a resource, in the store or not
EditIds == MsgIds \cup {"3"}
Keys == PendingMaps \X EditIds

\* the message handled last; got is the list a fetch answered, ret is the Task
\* update() returned
Msg(name) ==
    [msg |-> name, id |-> "", on |-> FALSE, bri |-> 0, hsv |-> NoColor, cnt |-> 0,
     ok |-> TRUE, got |-> <<>>, out |-> {}, ret |-> EmptyBag]

\* update() returns `ret` (kept by the runtime) batched with the platform commands `plat`
Return(rest, ret, plat, m) ==
    /\ tasks' = rest (+) ret
    /\ last' = [m EXCEPT !.ret = ret (+) plat]

\* a run of edits of one key: it starts at an edit that finds no earlier run still
\* waiting for its first commit, and it is closed by the first commit of the run
NoBurst ==
    [start |-> 0, n |-> 0, bri |-> 0, hsv |-> NoColor, fired |-> FALSE, cfg |-> TRUE,
     pushes |-> 0, pushed |-> NoMod]

Edited(k, counter, bri, hsv) ==
    [burst EXCEPT ![k] =
        IF @.n > 0 /\ ~@.fired
        THEN [@ EXCEPT !.n = @ + 1, !.bri = bri, !.hsv = hsv]
        ELSE [NoBurst EXCEPT !.start = counter, !.n = 1, !.bri = bri, !.hsv = hsv]]

Committed(k, counter, issued) ==
    [burst EXCEPT ![k] =
        [@ EXCEPT !.fired = @ \/ counter >= burst[k].start,
                  !.cfg = @ /\ IsSome(get_bridge(config)),
                  !.pushes = @ + BagCardinality(issued),
                  !.pushed = IF issued = EmptyBag THEN @
                             ELSE (CHOOSE t \in BagToSet(issued) : TRUE).mod]]

-----------------------------------------------------------------------------
(* Popup, fetches *)

\* variables no fetch, toggle or scene handler writes
edit_state == <<pendings, debounce_counter, burst>>
ui_state == <<popup, picker, more_menu_popup, panicked, pairing>>

TogglePopup(rest) ==
    /\ IF IsSome(popup)
       THEN /\ popup' = None
            /\ Return(rest, EmptyBag, One(PopupCommand("destroy_popup")), Msg("TogglePopup"))
       ELSE /\ popup' = Some("popup")
            /\ Return(rest,
                      IF IsSome(get_username(config))
                      THEN SetToBag({Post("LoadLights"), Post("LoadGroups"), Post("LoadScenes")})
                      ELSE EmptyBag,
                      One(PopupCommand("get_popup")), Msg("TogglePopup"))
    /\ UNCHANGED <<config, store, picker, more_menu_popup, panicked, pairing, edit_state, remote, menus>>

\* LoadLights, LoadGroups and LoadScenes differ in the call and the message only
Load(rest, name, op, then) ==
    /\ IF get_bridge(config) = None
       THEN Return(rest, EmptyBag, EmptyBag, Msg(name))
       ELSE Return(rest, One(Fetch(op, then)), EmptyBag, Msg(name))
    /\ UNCHANGED <<config, store, ui_state, edit_state, remote, menus>>

LoadLights(rest) == Load(rest, "LoadLights", "get_all_lights", "LightsLoaded")
LoadGroups(rest) == Load(rest, "LoadGroups", "get_all_groups", "GroupsLoaded")
LoadScenes(rest) == Load(rest, "LoadScenes", "get_all_scenes", "ScenesLoaded")

LightsLoadedOk(rest, fetched) ==
    /\ lights' = sort_by(Map(LightVm, fetched))
    /\ Return(rest, EmptyBag, EmptyBag, [Msg("LightsLoaded") EXCEPT !.got = fetched, !.out = {"Lights loaded"}])
    /\ UNCHANGED <<config, groups, scenes, ui_state, edit_state, remote, menus>>

GroupVmIn(group) == GroupVm(group, lights)

GroupsLoadedOk(rest, fetched) ==
    /\ groups' = sort_by(Map(GroupVmIn, fetched))
    /\ Return(rest, EmptyBag, EmptyBag, [Msg("GroupsLoaded") EXCEPT !.got = fetched, !.out = {"Groups loaded"}])
    /\ UNCHANGED <<config, lights, scenes, ui_state, edit_state, remote, menus>>

ScenesLoadedOk(rest, fetched) ==
    /\ scenes' = sort_by(Map(SceneVm, fetched))
    /\ Return(rest, EmptyBag, EmptyBag, [Msg("ScenesLoaded") EXCEPT !.got = fetched, !.out = {"Scenes loaded"}])
    /\ UNCHANGED <<config, lights, groups, ui_state, edit_state, remote, menus>>

\* fault: the Err arm clears the list the fetch was for
LoadedErr_clears(rest, name) ==
    /\ Return(rest, EmptyBag, EmptyBag, [Msg(name) EXCEPT !.ok = FALSE])
    /\ lights' = IF name = "LightsLoaded" THEN <<>> ELSE lights
    /\ groups' = IF name = "GroupsLoaded" THEN <<>> ELSE groups
    /\ scenes' = IF name = "ScenesLoaded" THEN <<>> ELSE scenes
    /\ UNCHANGED <<config, ui_state, edit_state, remote, menus>>

\* LightsLoaded(Err), GroupsLoaded(Err) and ScenesLoaded(Err) print the error
\* println!("Error loading lights: {:?}", error), and so for groups and scenes
LoadedErrOut(name) ==
    {CASE name = "LightsLoaded" -> "Error loading lights"
       [] name = "GroupsLoaded" -> "Error loading groups"
       [] OTHER                 -> "Error loading scenes"}

LoadedErr(rest, name) ==
    /\ Return(rest, EmptyBag, EmptyBag, [Msg(name) EXCEPT !.ok = FALSE, !.out = LoadedErrOut(name)])
    /\ UNCHANGED <<config, store, ui_state, edit_state, remote, menus>>

LightsLoadedErr(rest) == LoadedErr(rest, "LightsLoaded")
GroupsLoadedErr(rest) == LoadedErr(rest, "GroupsLoaded")
ScenesLoadedErr(rest) == LoadedErr(rest, "ScenesLoaded")

-----------------------------------------------------------------------------
(* Discovery and pairing *)

\* the future of DiscoverBridge prints "Error discovering bridges" when
\* discover_nupnp fails and "Bridges discovered" otherwise, also when the list
\* is empty and the result is the "no-bridge-found" error
DiscoveryErrors == {"nupnp", "no-bridge-found"}
DiscoveryOut(ok, e) ==
    IF ~ok /\ e = "nupnp" THEN {"Error discovering bridges"} ELSE {"Bridges discovered"}

DiscoverBridge(rest) ==
    /\ is_scanning' = TRUE
    /\ Return(rest,
              One(Task("discover_nupnp", 0, "BridgeDiscoveryFinished", "", 0, NoMod, "inflight", "")),
              EmptyBag, Msg("DiscoverBridge"))
    /\ UNCHANGED <<config, store, popup, picker, more_menu_popup, panicked, last_discovery,
                   edit_state, remote, menus>>

\* ctx_ok: whether cosmic_config::Config::new gave a context
BridgeDiscoveryFinishedOk(rest, bridge_ip, ctx_ok) ==
    /\ is_scanning' = FALSE
    /\ last_discovery' = Some(<<"Ok", bridge_ip>>)
    /\ config' = IF ctx_ok THEN [config EXCEPT !.bridge_ip = Some(bridge_ip)] ELSE config
    /\ Return(rest, EmptyBag, EmptyBag,
              [Msg("BridgeDiscoveryFinished") EXCEPT !.got = bridge_ip,
                                                     !.out = DiscoveryOut(TRUE, "")])
    /\ UNCHANGED <<store, popup, picker, more_menu_popup, panicked, edit_state, remote, menus>>

BridgeDiscoveryFinishedErr(rest, error) ==
    /\ is_scanning' = FALSE
    /\ last_discovery' = Some(<<"Err", error>>)
    /\ Return(rest, EmptyBag, EmptyBag,
              [Msg("BridgeDiscoveryFinished") EXCEPT !.ok = FALSE, !.got = error,
                                                     !.out = DiscoveryOut(FALSE, error)])
    /\ UNCHANGED <<config, store, popup, picker, more_menu_popup, panicked, edit_state, remote, menus>>

PairBridge(rest) ==
    /\ Return(rest,
              IF get_bridge_ip(config) = None THEN EmptyBag
              ELSE One(Task("register_user", 0, "PairBridgeFinished",
                            Unwrap(get_bridge_ip(config)), 0, NoMod, "inflight", "")),
              EmptyBag, Msg("PairBridge"))
    /\ UNCHANGED <<config, store, ui_state, edit_state, remote, menus>>

PairBridgeFinishedOk(rest, username, ctx_ok) ==
    /\ config' = IF ctx_ok THEN [config EXCEPT !.username = Some(username)] ELSE config
    /\ Return(rest, One(Post("LoadLights")), EmptyBag,
              [Msg("PairBridgeFinished") EXCEPT !.got = username])
    /\ UNCHANGED <<store, ui_state, edit_state, remote, menus>>

\* fault: a failed pairing forgets the bridge that was found
PairBridgeFinishedErr_forgets(rest, error) ==
    /\ last_discovery' = Some(<<"Err", error>>)
    /\ config' = [config EXCEPT !.bridge_ip = None]
    /\ Return(rest, EmptyBag, EmptyBag,
              [Msg("PairBridgeFinished") EXCEPT !.ok = FALSE, !.got = error])
    /\ UNCHANGED <<store, is_scanning, popup, picker, more_menu_popup, panicked,
                   edit_state, remote, menus>>

PairBridgeFinishedErr(rest, error) ==
    /\ last_discovery' = Some(<<"Err", error>>)
    /\ Return(rest, EmptyBag, EmptyBag,
              [Msg("PairBridgeFinished") EXCEPT !.ok = FALSE, !.got = error])
    /\ UNCHANGED <<config, store, is_scanning, popup, picker, more_menu_popup, panicked,
                   edit_state, remote, menus>>

-----------------------------------------------------------------------------
(* Toggles and scenes *)

\* the light the handler finds gets the new on-state
ToggleLightVm(ls, light_id, new_state) ==
    LET i == Find(ls, light_id)
    IN  IF i # 0 THEN [ls EXCEPT ![i].on = Some(new_state)] ELSE ls

ToggleLight(rest, light_id, new_state) ==
    /\ lights' = ToggleLightVm(lights, light_id, new_state)
    /\ IF get_bridge(config) = None
       THEN Return(rest, EmptyBag, EmptyBag,
                   [Msg("ToggleLight") EXCEPT !.id = light_id, !.on = new_state])
       ELSE Return(rest,
                   One(Push("set_light_state", light_id, with_on(NoMod, new_state),
                            "ResponsesModified", 0, "")),
                   EmptyBag, [Msg("ToggleLight") EXCEPT !.id = light_id, !.on = new_state])
    /\ UNCHANGED <<config, groups, scenes, ui_state, edit_state, remote, menus>>

\* the group the handler finds gets the new on-state
ToggleGroupVm(gs, group_id, new_state) ==
    LET g == Find(gs, group_id)
    IN  IF g # 0 THEN [gs EXCEPT ![g].on = Some(new_state)] ELSE gs

\* fault: the member lights keep their on-state
ToggleGroupLights_group_only(ls, gs, group_id, new_state) == ls

\* and so does every light its member ids find
ToggleGroupLights(ls, gs, group_id, new_state) ==
    LET g == Find(gs, group_id)
    IN  IF g # 0
        THEN [i \in 1..Len(ls) |->
                IF i \in Members(ls, gs[g]) THEN [ls[i] EXCEPT !.on = Some(new_state)]
                ELSE ls[i]]
        ELSE ls

\* println!("ToogleGroup: {}, new_state: {}", ..) when the group is found
ToggleGroupOut(gs, group_id) == IF Find(gs, group_id) # 0 THEN {"ToogleGroup"} ELSE {}

ToggleGroup(rest, group_id, new_state) ==
    /\ groups' = ToggleGroupVm(groups, group_id, new_state)
    /\ lights' = ToggleGroupLights(lights, groups, group_id, new_state)
    /\ IF get_bridge(config) = None
       THEN Return(rest, EmptyBag, EmptyBag,
                   [Msg("ToggleGroup") EXCEPT !.id = group_id, !.on = new_state,
                                              !.out = ToggleGroupOut(groups, group_id)])
       ELSE Return(rest,
                   One(Push("set_group_state", group_id, with_on(NoMod, new_state),
                            "ResponsesModified", 0, "")),
                   EmptyBag, [Msg("ToggleGroup") EXCEPT !.id = group_id, !.on = new_state,
                                                        !.out = ToggleGroupOut(groups, group_id)])
    /\ UNCHANGED <<config, scenes, ui_state, edit_state, remote, menus>>

\* fault: a scene that is not in the list is sent to the empty group id
ActivateSceneTask_unknown_pushed(scene_id) ==
    LET i == Find(scenes, scene_id)
    IN  IF get_bridge(config) = None THEN EmptyBag
        ELSE One(Push("set_group_state", IF i = 0 THEN "" ELSE scenes[i].group,
                      with_scene(NoMod, scene_id), "SceneActivated", 0, ""))

\* the Task ActivateScene returns
ActivateSceneTask(scene_id) ==
    LET i == Find(scenes, scene_id)
    IN  IF i = 0 THEN EmptyBag
        ELSE IF get_bridge(config) = None THEN EmptyBag
        ELSE One(Push("set_group_state", scenes[i].group, with_scene(NoMod, scene_id),
                      "SceneActivated", 0, ""))

ActivateScene(rest, scene_id) ==
    /\ Return(rest, ActivateSceneTask(scene_id), EmptyBag,
              [Msg("ActivateScene") EXCEPT !.id = scene_id])
    /\ UNCHANGED <<config, store, ui_state, edit_state, remote, menus>>

\* fault: the batch refreshes the groups alone
SceneActivatedOkTask_groups_only ==
    SetToBag({Post("ResponsesModified"), RefreshTimer("LoadGroups")})

\* the batch SceneActivated(Ok(responses)) returns
SceneActivatedOkTask ==
    SetToBag({Post("ResponsesModified"), RefreshTimer("LoadGroups"), RefreshTimer("LoadLights")})

SceneActivatedOk(rest) ==
    /\ Return(rest, SceneActivatedOkTask, EmptyBag, Msg("SceneActivated"))
    /\ UNCHANGED <<config, store, ui_state, edit_state, remote, menus>>

\* the Task SceneActivated(Err(error)) returns: it prints the error
SceneActivatedErrTask == EmptyBag

SceneActivatedErr(rest) ==
    /\ Return(rest, SceneActivatedErrTask, EmptyBag,
              [Msg("SceneActivated") EXCEPT !.ok = FALSE, !.out = {"Error activating scene"}])
    /\ UNCHANGED <<config, store, ui_state, edit_state, remote, menus>>

\* fault: a failed push is answered by fetching the lights and groups again
ResponsesModifiedTask_refetch(ok) ==
    IF ok THEN EmptyBag ELSE SetToBag({Post("LoadLights"), Post("LoadGroups")})

\* the Task ResponsesModified returns, Ok or Err: both print
ResponsesModifiedTask(ok) == EmptyBag

ResponsesModified(rest, ok) ==
    /\ Return(rest, ResponsesModifiedTask(ok), EmptyBag,
              [Msg("ResponsesModified") EXCEPT !.ok = ok,
                                               !.out = IF ok THEN {"ResponsesModified"} ELSE {"Error"}])
    /\ UNCHANGED <<config, store, ui_state, edit_state, remote, menus>>

-----------------------------------------------------------------------------
(* Edits: the four Set* handlers *)

\* SetLightBrightness: the light found shows the new brightness
SetLightBrightnessVm(ls, light_id, new_brightness) ==
    LET i == Find(ls, light_id)
    IN  IF i # 0 THEN [ls EXCEPT ![i].brightness = Some(as_u8(new_brightness))] ELSE ls

SetLightBrightness(rest, light_id, new_brightness) ==
    LET counter == debounce_counter + 1
    IN  /\ lights' = SetLightBrightnessVm(lights, light_id, new_brightness)
        /\ debounce_counter' = counter
        /\ pending_light_brightness' =
               HashMapInsert(pending_light_brightness, light_id, new_brightness, counter)
        /\ Return(rest, One(CommitTimer("ApplyLightBrightness", light_id, counter)), EmptyBag,
                  [Msg("SetLightBrightness") EXCEPT !.id = light_id, !.bri = new_brightness,
                                                    !.cnt = counter])
        /\ burst' = Edited(<<"light_brightness", light_id>>, counter, new_brightness, NoColor)
        /\ UNCHANGED <<config, groups, scenes, ui_state, remote, menus,
                       pending_group_brightness, pending_light_color, pending_group_color>>

\* fault: the test of group.brightness.is_some() is left out
GroupBrightnessShown_found(gs, group_id) == Find(gs, group_id) # 0

\* SetGroupBrightness: whether the handler touches the view model at all
GroupBrightnessShown(gs, group_id) ==
    LET g == Find(gs, group_id)
    IN  g # 0 /\ IsSome(gs[g].brightness)

\* fault: the member lights are not updated
SetGroupBrightnessLights_no_fan_out(ls, gs, group_id, new_brightness) == ls

SetGroupBrightnessLights(ls, gs, group_id, new_brightness) ==
    IF GroupBrightnessShown(gs, group_id)
    THEN [i \in 1..Len(ls) |->
            IF i \in Members(ls, gs[Find(gs, group_id)])
            THEN [ls[i] EXCEPT !.brightness = Some(as_u8(new_brightness))]
            ELSE ls[i]]
    ELSE ls

SetGroupBrightnessVm(gs, group_id, new_brightness) ==
    IF GroupBrightnessShown(gs, group_id)
    THEN [gs EXCEPT ![Find(gs, group_id)].brightness = Some(as_u8(new_brightness))]
    ELSE gs

SetGroupBrightness(rest, group_id, new_brightness) ==
    LET counter == debounce_counter + 1
    IN  /\ lights' = SetGroupBrightnessLights(lights, groups, group_id, new_brightness)
        /\ groups' = SetGroupBrightnessVm(groups, group_id, new_brightness)
        /\ debounce_counter' = counter
        /\ pending_group_brightness' =
               HashMapInsert(pending_group_brightness, group_id, new_brightness, counter)
        /\ Return(rest, One(CommitTimer("ApplyGroupBrightness", group_id, counter)), EmptyBag,
                  [Msg("SetGroupBrightness") EXCEPT !.id = group_id, !.bri = new_brightness,
                                                    !.cnt = counter])
        /\ burst' = Edited(<<"group_brightness", group_id>>, counter, new_brightness, NoColor)
        /\ UNCHANGED <<config, scenes, ui_state, remote, menus,
                       pending_light_brightness, pending_light_color, pending_group_color>>

\* ColorPickerUpdate: ActiveColor(color), or any other variant
ActiveColor(color) == [kind |-> "ActiveColor", color |-> color]
OtherUpdate == [kind |-> "Other", color |-> NoColor]
ColorPickerUpdates == {ActiveColor(c) : c \in Colors} \cup {OtherUpdate}

\* the element whose id is the id of the active colour-picker item, whatever its type
ActiveIn(s) ==
    IF active_color_picker_item = None THEN 0
    ELSE Find(s, Unwrap(active_color_picker_item)[1])

SetLightColorVm(ls, i, color) == [ls EXCEPT ![i].color = Some(hsv_palette_to_rgb(color))]

SetLightColor(rest, update) ==
    LET i == ActiveIn(lights)
        counter == debounce_counter + 1
    IN  IF i # 0 /\ update.kind = "ActiveColor"
        THEN /\ lights' = SetLightColorVm(lights, i, update.color)
             /\ debounce_counter' = counter
             /\ pending_light_color' =
                    HashMapInsert(pending_light_color, lights[i].id,
                                  hsv_palette_to_hsv_lib(update.color), counter)
             /\ Return(rest, One(CommitTimer("ApplyLightColor", lights[i].id, counter)), EmptyBag,
                       [Msg("SetLightColor") EXCEPT !.id = lights[i].id, !.hsv = update.color,
                                                    !.cnt = counter])
             /\ burst' = Edited(<<"light_color", lights[i].id>>, counter, 0, update.color)
             /\ UNCHANGED <<config, groups, scenes, ui_state, remote, menus,
                            pending_light_brightness, pending_group_brightness,
                            pending_group_color>>
        ELSE /\ Return(rest, EmptyBag, EmptyBag, [Msg("SetLightColor") EXCEPT !.ok = FALSE])
             /\ UNCHANGED <<config, store, ui_state, edit_state, remote, menus>>

SetGroupColorLights(ls, group, color) ==
    [i \in 1..Len(ls) |->
        IF i \in Members(ls, group) THEN [ls[i] EXCEPT !.color = Some(hsv_palette_to_rgb(color))]
        ELSE ls[i]]

SetGroupColorVm(gs, g, color) == [gs EXCEPT ![g].color = Some(hsv_palette_to_rgb(color))]

SetGroupColor(rest, update) ==
    LET g == ActiveIn(groups)
        counter == debounce_counter + 1
    IN  IF g # 0 /\ update.kind = "ActiveColor"
        THEN /\ lights' = SetGroupColorLights(lights, groups[g], update.color)
             /\ groups' = SetGroupColorVm(groups, g, update.color)
             /\ debounce_counter' = counter
             /\ pending_group_color' =
                    HashMapInsert(pending_group_color, groups[g].id,
                                  hsv_palette_to_hsv_lib(update.color), counter)
             /\ Return(rest, One(CommitTimer("ApplyGroupColor", groups[g].id, counter)), EmptyBag,
                       [Msg("SetGroupColor") EXCEPT !.id = groups[g].id, !.hsv = update.color,
                                                    !.cnt = counter])
             /\ burst' = Edited(<<"group_color", groups[g].id>>, counter, 0, update.color)
             /\ UNCHANGED <<config, scenes, ui_state, remote, menus,
                            pending_light_brightness, pending_group_brightness,
                            pending_light_color>>
        ELSE /\ Return(rest, EmptyBag, EmptyBag, [Msg("SetGroupColor") EXCEPT !.ok = FALSE])
             /\ UNCHANGED <<config, store, ui_state, edit_state, remote, menus>>

-----------------------------------------------------------------------------
(* Commits: the four Apply* handlers *)

\* fault: the commit does not compare the counters
IsLastRequest_any_counter(pending, id, counter) == IsSome(HashMapGet(pending, id))

\* "Check if it's still the last request"
IsLastRequest(pending, id, counter) ==
    LET e == HashMapGet(pending, id)
    IN  IsSome(e) /\ Unwrap(e).counter = counter

\* fault: the entry is removed only once a bridge is at hand
AfterCommit_needs_bridge(pending, id, counter) ==
    IF IsLastRequest(pending, id, counter) /\ IsSome(get_bridge(config))
    THEN HashMapRemove(pending, id) ELSE pending

\* fault: the commit that matches leaves the entry where it is
AfterCommit_keeps(pending, id, counter) == pending

\* the map after the commit: the entry is removed when it is the last request
AfterCommit(pending, id, counter) ==
    IF IsLastRequest(pending, id, counter) THEN HashMapRemove(pending, id) ELSE pending

BrightnessModifier(brightness) == with_brightness(NoMod, as_u8(brightness))
ColorModifier(c) == with_brightness(with_saturation(with_hue(NoMod, c[1]), c[2]), c[3])

\* fault: without a bridge the commit is scheduled once more
CommitTask_retries(pending, op, id, counter, cls) ==
    IF ~IsLastRequest(pending, id, counter) THEN EmptyBag
    ELSE IF get_bridge(config) = None
         THEN One(CommitTimer(CASE cls = "light_brightness" -> "ApplyLightBrightness"
                                [] cls = "group_brightness" -> "ApplyGroupBrightness"
                                [] cls = "light_color" -> "ApplyLightColor"
                                [] OTHER -> "ApplyGroupColor",
                              id, counter))
    ELSE LET value == Unwrap(HashMapGet(pending, id)).value
         IN  One(Push(op, id,
                      IF cls \in {"light_brightness", "group_brightness"}
                      THEN BrightnessModifier(value) ELSE ColorModifier(value),
                      "ResponsesModified", counter, cls))

\* the Task an Apply* handler returns
CommitTask(pending, op, id, counter, cls) ==
    IF ~IsLastRequest(pending, id, counter) THEN EmptyBag
    ELSE IF get_bridge(config) = None THEN EmptyBag
    ELSE LET value == Unwrap(HashMapGet(pending, id)).value
         IN  One(Push(op, id,
                      IF cls \in {"light_brightness", "group_brightness"}
                      THEN BrightnessModifier(value) ELSE ColorModifier(value),
                      "ResponsesModified", counter, cls))

\* fault: a commit that pushes nothing reports it as an error
ApplyReturn_logs_stale(rest, name, id, counter, issued, cls) ==
    /\ Return(rest, issued, EmptyBag,
              [Msg(name) EXCEPT !.id = id, !.cnt = counter,
                                !.out = IF issued = EmptyBag THEN {"Error"} ELSE {}])
    /\ burst' = Committed(<<cls, id>>, counter, issued)
    /\ debounce_counter' = debounce_counter
    /\ UNCHANGED <<config, store, ui_state, remote, menus>>

\* the Apply* handlers print nothing
ApplyReturn(rest, name, id, counter, issued, cls) ==
    /\ Return(rest, issued, EmptyBag, [Msg(name) EXCEPT !.id = id, !.cnt = counter])
    /\ burst' = Committed(<<cls, id>>, counter, issued)
    /\ debounce_counter' = debounce_counter
    /\ UNCHANGED <<config, store, ui_state, remote, menus>>

ApplyLightBrightness(rest, light_id, counter) ==
    /\ pending_light_brightness' = AfterCommit(pending_light_brightness, light_id, counter)
    /\ ApplyReturn(rest, "ApplyLightBrightness", light_id, counter,
                   CommitTask(pending_light_brightness, "set_light_state", light_id, counter,
                              "light_brightness"),
                   "light_brightness")
    /\ UNCHANGED <<pending_group_brightness, pending_light_color, pending_group_color>>

ApplyGroupBrightness(rest, group_id, counter) ==
    /\ pending_group_brightness' = AfterCommit(pending_group_brightness, group_id, counter)
    /\ ApplyReturn(rest, "ApplyGroupBrightness", group_id, counter,
                   CommitTask(pending_group_brightness, "set_group_state", group_id, counter,
                              "group_brightness"),
                   "group_brightness")
    /\ UNCHANGED <<pending_light_brightness, pending_light_color, pending_group_color>>

ApplyLightColor(rest, light_id, counter) ==
    /\ pending_light_color' = AfterCommit(pending_light_color, light_id, counter)
    /\ ApplyReturn(rest, "ApplyLightColor", light_id, counter,
                   CommitTask(pending_light_color, "set_light_state", light_id, counter,
                              "light_color"),
                   "light_color")
    /\ UNCHANGED <<pending_light_brightness, pending_group_brightness, pending_group_color>>

ApplyGroupColor(rest, group_id, counter) ==
    /\ pending_group_color' = AfterCommit(pending_group_color, group_id, counter)
    /\ ApplyReturn(rest, "ApplyGroupColor", group_id, counter,
                   CommitTask(pending_group_color, "set_group_state", group_id, counter,
                              "group_color"),
                   "group_color")
    /\ UNCHANGED <<pending_light_brightness, pending_group_brightness, pending_light_color>>

-----------------------------------------------------------------------------
(* Colour picker selection, unpairing *)

\* open_color_picker_popup: self.popup.unwrap() aborts when the main popup is closed
ToggleColorPicker(rest, item_id, item_type) ==
    LET item == Some(<<item_id, item_type>>)
        active == IF active_color_picker_item = item THEN None ELSE item
    IN  /\ active_color_picker_item' = active
        /\ IF IsSome(color_picker_popup)
           THEN /\ color_picker_popup' = None
                /\ UNCHANGED <<last_active_color_picker_item, panicked>>
                /\ Return(rest, EmptyBag, One(PopupCommand("destroy_popup")),
                          [Msg("ToggleColorPicker") EXCEPT !.id = item_id,
                                                           !.got = <<item_id, item_type>>])
           ELSE IF last_active_color_picker_item = Some(item_id)
           THEN /\ color_picker_popup' = Some("color_picker")
                /\ last_active_color_picker_item' =
                       IF IsSome(active) THEN Some(Unwrap(active)[1]) ELSE None
                /\ panicked' = (popup = None)
                /\ Return(rest, EmptyBag,
                          IF popup = None THEN EmptyBag ELSE One(PopupCommand("get_popup")),
                          [Msg("ToggleColorPicker") EXCEPT !.id = item_id,
                                                           !.got = <<item_id, item_type>>])
           ELSE /\ UNCHANGED <<color_picker_popup, last_active_color_picker_item, panicked>>
                /\ Return(rest, EmptyBag, EmptyBag,
                          [Msg("ToggleColorPicker") EXCEPT !.id = item_id,
                                                           !.got = <<item_id, item_type>>])
        /\ UNCHANGED <<config, store, popup, more_menu_popup, pairing, edit_state, remote, menus,
                       color_button_rectangles>>

\* RectangleUpdate::Rectangle((id, rectangle)): the rectangle is kept and
\* TryToggleColorPicker is posted
RectanglesUpdated(rest, id) ==
    /\ color_button_rectangles' = color_button_rectangles \cup {id}
    /\ Return(rest, One(Post("TryToggleColorPicker")), EmptyBag, Msg("RectanglesUpdated"))
    /\ UNCHANGED <<config, store, popup, color_picker_popup, active_color_picker_item,
                   last_active_color_picker_item, more_menu_popup, panicked, pairing,
                   edit_state, remote, menus>>

\* without the rectangle of button 0 the message posts itself again; with it
\* an open colour picker is closed and a closed one is opened
TryToggleColorPicker(rest) ==
    IF 0 \notin color_button_rectangles
    THEN /\ Return(rest, One(Post("TryToggleColorPicker")), EmptyBag, Msg("TryToggleColorPicker"))
         /\ UNCHANGED <<config, store, ui_state, edit_state, remote, menus>>
    ELSE IF IsSome(color_picker_popup)
    THEN /\ color_picker_popup' = None
         /\ color_button_rectangles' = color_button_rectangles \ {0}
         /\ Return(rest, EmptyBag, One(PopupCommand("destroy_popup")), Msg("TryToggleColorPicker"))
         /\ UNCHANGED <<config, store, popup, active_color_picker_item,
                        last_active_color_picker_item, more_menu_popup, panicked, pairing,
                        edit_state, remote, menus>>
    ELSE /\ color_picker_popup' = Some("color_picker")
         /\ last_active_color_picker_item' =
                IF IsSome(active_color_picker_item)
                THEN Some(Unwrap(active_color_picker_item)[1]) ELSE None
         /\ panicked' = (popup = None)
         /\ Return(rest, EmptyBag,
                   IF popup = None THEN EmptyBag ELSE One(PopupCommand("get_popup")),
                   Msg("TryToggleColorPicker"))
         /\ UNCHANGED <<config, store, popup, active_color_picker_item,
                        color_button_rectangles, more_menu_popup, pairing, edit_state, remote, menus>>

\* fault: unpairing also starts the counter again
UnpairBridge_resets(rest, ctx_ok) ==
    /\ IF ctx_ok
       THEN /\ config' = [bridge_ip |-> None, username |-> None]
            /\ lights' = <<>>
            /\ groups' = <<>>
            /\ scenes' = <<>>
            /\ more_menu_popup' = None
            /\ debounce_counter' = 0
            /\ Return(rest, EmptyBag,
                      IF IsSome(more_menu_popup) THEN One(PopupCommand("destroy_popup"))
                      ELSE EmptyBag,
                      Msg("UnpairBridge"))
       ELSE /\ UNCHANGED <<config, store, more_menu_popup, debounce_counter>>
            /\ Return(rest, EmptyBag, EmptyBag, [Msg("UnpairBridge") EXCEPT !.ok = FALSE])
    /\ UNCHANGED <<popup, picker, panicked, pairing, pendings, burst, remote, menus>>

\* ctx_ok: whether cosmic_config::Config::new gave a context
UnpairBridge(rest, ctx_ok) ==
    /\ IF ctx_ok
       THEN /\ config' = [bridge_ip |-> None, username |-> None]
            /\ lights' = <<>>
            /\ groups' = <<>>
            /\ scenes' = <<>>
            /\ more_menu_popup' = None
            /\ Return(rest, EmptyBag,
                      IF IsSome(more_menu_popup) THEN One(PopupCommand("destroy_popup"))
                      ELSE EmptyBag,
                      Msg("UnpairBridge"))
       ELSE /\ UNCHANGED <<config, store, more_menu_popup>>
            /\ Return(rest, EmptyBag, EmptyBag, [Msg("UnpairBridge") EXCEPT !.ok = FALSE])
    /\ UNCHANGED <<popup, picker, panicked, pairing, edit_state, remote, menus>>

-----------------------------------------------------------------------------
(* The three menus of the popup *)

\* fault: the other two menus are left as they are
ToggleLightsMenu_keeps_others(rest) ==
    /\ lights_menu_expanded' = ~lights_menu_expanded
    /\ UNCHANGED <<groups_menu_expanded, scenes_menu_expanded>>
    /\ Return(rest, EmptyBag, EmptyBag, [Msg("ToggleLightsMenu") EXCEPT !.got = menus])
    /\ UNCHANGED <<config, store, ui_state, edit_state, remote>>

\* the flag is negated; when that expands the menu the other two collapse.
\* `got` keeps the three flags as they were before the message
ToggleLightsMenu(rest) ==
    /\ lights_menu_expanded' = ~lights_menu_expanded
    /\ IF ~lights_menu_expanded
       THEN groups_menu_expanded' = FALSE /\ scenes_menu_expanded' = FALSE
       ELSE UNCHANGED <<groups_menu_expanded, scenes_menu_expanded>>
    /\ Return(rest, EmptyBag, EmptyBag, [Msg("ToggleLightsMenu") EXCEPT !.got = menus])
    /\ UNCHANGED <<config, store, ui_state, edit_state, remote>>

ToggleGroupsMenu(rest) ==
    /\ groups_menu_expanded' = ~groups_menu_expanded
    /\ IF ~groups_menu_expanded
       THEN lights_menu_expanded' = FALSE /\ scenes_menu_expanded' = FALSE
       ELSE UNCHANGED <<lights_menu_expanded, scenes_menu_expanded>>
    /\ Return(rest, EmptyBag, EmptyBag, [Msg("ToggleGroupsMenu") EXCEPT !.got = menus])
    /\ UNCHANGED <<config, store, ui_state, edit_state, remote>>

ToggleScenesMenu(rest) ==
    /\ scenes_menu_expanded' = ~scenes_menu_expanded
    /\ IF ~scenes_menu_expanded
       THEN lights_menu_expanded' = FALSE /\ groups_menu_expanded' = FALSE
       ELSE UNCHANGED <<lights_menu_expanded, groups_menu_expanded>>
    /\ Return(rest, EmptyBag, EmptyBag, [Msg("ToggleScenesMenu") EXCEPT !.got = menus])
    /\ UNCHANGED <<config, store, ui_state, edit_state, remote>>

-----------------------------------------------------------------------------
(* The bridge: a push in flight takes effect, or fails, before its result is delivered *)

NoEffect == [cnt |-> 0, mod |-> NoMod]

PushLands(t, ok) ==
    /\ tasks' = Without(t) (+) One([t EXCEPT !.res = IF ok THEN "ok" ELSE "err"])
    /\ remote' = IF ok /\ t.cls # ""
                 THEN [remote EXCEPT ![<<t.cls, t.id>>] = [cnt |-> t.cnt, mod |-> t.mod]]
                 ELSE remote
    /\ UNCHANGED <<config, store, ui_state, edit_state, last, menus>>

-----------------------------------------------------------------------------
(* The runtime: which message update() gets next *)

\* tasks whose future has resolved into the message `name`
Resolved(name) == {t \in BagToSet(tasks) : t.then = name /\ t.res # "inflight"}
\* fetches under way whose result will be the message `name`
Fetching(name) == {t \in BagToSet(tasks) : t.then = name /\ IsFetch(t)}
\* pushes the bridge has not answered
InFlight == {t \in BagToSet(tasks) : IsPush(t) /\ t.res = "inflight"}

\* Config::get_entry at start-up: nothing stored, a bridge found, or a bridge paired
StoredConfigs ==
    {[bridge_ip |-> None, username |-> None],
     [bridge_ip |-> Some("192.168.1.2"), username |-> None],
     [bridge_ip |-> Some("192.168.1.2"), username |-> Some("user")]}

\* AppModel::init
Init ==
    /\ config \in StoredConfigs
    /\ popup = None
    /\ lights = <<>>
    /\ groups = <<>>
    /\ scenes = <<>>
    /\ color_picker_popup = None
    /\ more_menu_popup = None
    /\ active_color_picker_item = None
    /\ last_active_color_picker_item = None
    /\ pending_light_brightness = {}
    /\ pending_group_brightness = {}
    /\ pending_light_color = {}
    /\ pending_group_color = {}
    /\ debounce_counter = 0
    /\ panicked = FALSE
    /\ color_button_rectangles = {}
    /\ is_scanning = FALSE
    /\ last_discovery = None
    /\ tasks = EmptyBag
    /\ remote = [k \in Keys |-> NoEffect]
    /\ lights_menu_expanded = FALSE
    /\ groups_menu_expanded = FALSE
    /\ scenes_menu_expanded = FALSE
    /\ last = Msg("init")
    /\ burst = [k \in Keys |-> NoBurst]

\* The store once the popup has been opened on a paired bridge and the three
\* fetches have answered LightsA, GroupsA and ScenesA, in this order.
InitLoaded ==
    /\ config = [bridge_ip |-> Some("192.168.1.2"), username |-> Some("user")]
    /\ popup = Some("popup")
    /\ lights = sort_by(Map(LightVm, LightsA))
    /\ groups = sort_by([i \in 1..Len(GroupsA) |-> GroupVm(GroupsA[i], sort_by(Map(LightVm, LightsA)))])
    /\ scenes = sort_by(Map(SceneVm, ScenesA))
    /\ color_picker_popup = None
    /\ more_menu_popup = None
    /\ active_color_picker_item = None
    /\ last_active_color_picker_item = None
    /\ pending_light_brightness = {}
    /\ pending_group_brightness = {}
    /\ pending_light_color = {}
    /\ pending_group_color = {}
    /\ debounce_counter = 0
    /\ panicked = FALSE
    /\ color_button_rectangles = {}
    /\ is_scanning = FALSE
    /\ last_discovery = None
    /\ tasks = EmptyBag
    /\ remote = [k \in Keys |-> NoEffect]
    /\ lights_menu_expanded = FALSE
    /\ groups_menu_expanded = FALSE
    /\ scenes_menu_expanded = FALSE
    /\ last = Msg("ScenesLoaded")
    /\ burst = [k \in Keys |-> NoBurst]

\* gestures: the user stops while the runtime holds MaxTasks tasks,
\* and submits no more than MaxEdits edits
Idle == ~panicked /\ NTasks = 0
Room == ~panicked /\ NTasks < MaxTasks
EditRoom == ~panicked /\ debounce_counter < MaxEdits

OnTogglePopup == Idle /\ TogglePopup(tasks)
OnToggleLight(ids, states) == Room /\ \E id \in ids, b \in states : ToggleLight(tasks, id, b)
OnToggleGroup(ids, states) == Room /\ \E id \in ids, b \in states : ToggleGroup(tasks, id, b)
OnActivateScene(ids) == Room /\ \E id \in ids : ActivateScene(tasks, id)
OnSetLightBrightness(ids, values) ==
    EditRoom /\ \E id \in ids, b \in values : SetLightBrightness(tasks, id, b)
OnSetGroupBrightness(ids, values) ==
    EditRoom /\ \E id \in ids, b \in values : SetGroupBrightness(tasks, id, b)
OnSetLightColor(updates) == EditRoom /\ \E u \in updates : SetLightColor(tasks, u)
OnSetGroupColor(updates) == EditRoom /\ \E u \in updates : SetGroupColor(tasks, u)
OnToggleColorPicker(items) ==
    ~panicked /\ \E item \in items : ToggleColorPicker(tasks, item[1], item[2])
OnUnpairBridge(ctx) == ~panicked /\ \E ctx_ok \in ctx : UnpairBridge(tasks, ctx_ok)
\* the view puts the colour button of the active item, when it is shown in the
\* open popup, in the tracked container 0; the tracker reports its rectangle
Displayed(item) ==
    \/ item[2] = "light" /\ Find(lights, item[1]) # 0
    \/ item[2] = "group" /\ Find(groups, item[1]) # 0
OnRectanglesUpdated ==
    /\ Room /\ IsSome(popup)
    /\ IsSome(active_color_picker_item) /\ Displayed(Unwrap(active_color_picker_item))
    /\ RectanglesUpdated(tasks, 0)
OnTryToggleColorPicker ==
    ~panicked /\ \E t \in Resolved("TryToggleColorPicker") : TryToggleColorPicker(Without(t))
\* the "configure" button is pressable while no scan runs, the "pair" button
\* while a bridge address is stored; both are shown while no username is stored
OnDiscoverBridge == Room /\ get_username(config) = None /\ ~is_scanning /\ DiscoverBridge(tasks)
OnPairBridge ==
    Room /\ get_username(config) = None /\ IsSome(get_bridge_ip(config)) /\ PairBridge(tasks)

\* the three menu buttons of the open popup
OnToggleLightsMenu == ~panicked /\ IsSome(popup) /\ ToggleLightsMenu(tasks)
OnToggleGroupsMenu == ~panicked /\ IsSome(popup) /\ ToggleGroupsMenu(tasks)
OnToggleScenesMenu == ~panicked /\ IsSome(popup) /\ ToggleScenesMenu(tasks)

\* messages of resolved tasks
OnLoadLights == ~panicked /\ \E t \in Resolved("LoadLights") : LoadLights(Without(t))
OnLoadGroups == ~panicked /\ \E t \in Resolved("LoadGroups") : LoadGroups(Without(t))
OnLoadScenes == ~panicked /\ \E t \in Resolved("LoadScenes") : LoadScenes(Without(t))
OnLightsLoadedOk(results) ==
    ~panicked /\ \E t \in Fetching("LightsLoaded"), r \in results : LightsLoadedOk(Without(t), r)
OnLightsLoadedErr == ~panicked /\ \E t \in Fetching("LightsLoaded") : LightsLoadedErr(Without(t))
OnGroupsLoadedOk(results) ==
    ~panicked /\ \E t \in Fetching("GroupsLoaded"), r \in results : GroupsLoadedOk(Without(t), r)
OnGroupsLoadedErr == ~panicked /\ \E t \in Fetching("GroupsLoaded") : GroupsLoadedErr(Without(t))
OnScenesLoadedOk(results) ==
    ~panicked /\ \E t \in Fetching("ScenesLoaded"), r \in results : ScenesLoadedOk(Without(t), r)
OnScenesLoadedErr == ~panicked /\ \E t \in Fetching("ScenesLoaded") : ScenesLoadedErr(Without(t))
OnPushLands(outcomes) == \E t \in InFlight, ok \in outcomes : PushLands(t, ok)
OnResponsesModified ==
    ~panicked /\ \E t \in Resolved("ResponsesModified") : ResponsesModified(Without(t), t.res = "ok")
OnSceneActivatedOk ==
    ~panicked /\ \E t \in Resolved("SceneActivated") : t.res = "ok" /\ SceneActivatedOk(Without(t))
OnSceneActivatedErr ==
    ~panicked /\ \E t \in Resolved("SceneActivated") : t.res = "err" /\ SceneActivatedErr(Without(t))
\* results of the discovery and of the registration
Awaiting(name) == {t \in BagToSet(tasks) : t.then = name /\ t.res = "inflight"}
OnBridgeDiscoveryFinishedOk(ips, ctx) ==
    ~panicked /\ \E t \in Awaiting("BridgeDiscoveryFinished"), ip \in ips, ctx_ok \in ctx :
                    BridgeDiscoveryFinishedOk(Without(t), ip, ctx_ok)
OnBridgeDiscoveryFinishedErr(errors) ==
    ~panicked /\ \E t \in Awaiting("BridgeDiscoveryFinished"), e \in errors :
                    BridgeDiscoveryFinishedErr(Without(t), e)
OnPairBridgeFinishedOk(names, ctx) ==
    ~panicked /\ \E t \in Awaiting("PairBridgeFinished"), u \in names, ctx_ok \in ctx :
                    PairBridgeFinishedOk(Without(t), u, ctx_ok)
OnPairBridgeFinishedErr(errors) ==
    ~panicked /\ \E t \in Awaiting("PairBridgeFinished"), e \in errors :
                    PairBridgeFinishedErr(Without(t), e)
OnApplyLightBrightness ==
    ~panicked /\ \E t \in Resolved("ApplyLightBrightness") : ApplyLightBrightness(Without(t), t.id, t.cnt)
OnApplyGroupBrightness ==
    ~panicked /\ \E t \in Resolved("ApplyGroupBrightness") : ApplyGroupBrightness(Without(t), t.id, t.cnt)
OnApplyLightColor ==
    ~panicked /\ \E t \in Resolved("ApplyLightColor") : ApplyLightColor(Without(t), t.id, t.cnt)
OnApplyGroupColor ==
    ~panicked /\ \E t \in Resolved("ApplyGroupColor") : ApplyGroupColor(Without(t), t.id, t.cnt)

-----------------------------------------------------------------------------
(* Specifications *)

\* Opening the popup and the three fetches, with unpairing in between.
NextFetch ==
    \/ OnTogglePopup
    \/ OnLoadLights \/ OnLoadGroups \/ OnLoadScenes
    \/ OnLightsLoadedOk(FetchedLights) \/ OnLightsLoadedErr
    \/ OnGroupsLoadedOk(FetchedGroups) \/ OnGroupsLoadedErr
    \/ OnScenesLoadedOk(FetchedScenes) \/ OnScenesLoadedErr
    \/ OnUnpairBridge(BOOLEAN)

SpecFetch == Init /\ [][NextFetch]_vars

\* Edits and their commits on a loaded store: lights 1 and 2 and groups 1 and 2
\* are in the store, light 3 and group 3 are not. The colour picker has been
\* toggled on an item before the first edit (ToggleColorPicker from InitLoaded).
ActiveAtStart == {Some(<<"1", "group">>), Some(<<"3", "light">>)}

InitPicked(items) ==
    \E a \in items :
        /\ active_color_picker_item = a
        /\ last = [Msg("ToggleColorPicker") EXCEPT !.id = Unwrap(a)[1]]
        /\ config = [bridge_ip |-> Some("192.168.1.2"), username |-> Some("user")]
        /\ popup = Some("popup")
        /\ lights = sort_by(Map(LightVm, LightsA))
        /\ groups = sort_by([i \in 1..Len(GroupsA) |->
                                GroupVm(GroupsA[i], sort_by(Map(LightVm, LightsA)))])
        /\ scenes = sort_by(Map(SceneVm, ScenesA))
        /\ color_picker_popup = None
        /\ more_menu_popup = None
        /\ last_active_color_picker_item = None
        /\ pending_light_brightness = {}
        /\ pending_group_brightness = {}
        /\ pending_light_color = {}
        /\ pending_group_color = {}
        /\ debounce_counter = 0
        /\ panicked = FALSE
        /\ color_button_rectangles = {}
        /\ is_scanning = FALSE
        /\ last_discovery = None
        /\ tasks = EmptyBag
        /\ remote = [k \in Keys |-> NoEffect]
        /\ lights_menu_expanded = FALSE
        /\ groups_menu_expanded = FALSE
        /\ scenes_menu_expanded = FALSE
        /\ burst = [k \in Keys |-> NoBurst]

InitEdit == InitPicked(ActiveAtStart)

NextEdit ==
    \/ OnSetLightBrightness({"1", "3"}, Brightnesses)
    \/ OnSetGroupBrightness({"1", "2"}, Brightnesses)
    \/ OnSetLightColor(ColorPickerUpdates)
    \/ OnSetGroupColor(ColorPickerUpdates)
    \/ OnApplyLightBrightness \/ OnApplyGroupBrightness
    \/ OnApplyLightColor \/ OnApplyGroupColor
    \/ OnPushLands({TRUE}) \/ OnResponsesModified

SpecEdit == InitEdit /\ [][NextEdit]_vars

\* Toggles and scene activations on a loaded store, with the refresh that follows.
NextToggle ==
    \/ OnToggleLight({"1"}, BOOLEAN) \/ OnToggleGroup(MsgIds, BOOLEAN)
    \/ OnActivateScene({"s1", "s9"})
    \/ OnPushLands(BOOLEAN) \/ OnResponsesModified
    \/ OnSceneActivatedOk \/ OnSceneActivatedErr
    \/ OnLoadLights \/ OnLoadGroups
    \/ OnLightsLoadedOk({LightsB}) \/ OnGroupsLoadedOk({GroupsB})

SpecToggle == InitLoaded /\ [][NextToggle]_vars

\* Unpairing while loads, fetches and commits are outstanding: every handler that
\* asks get_bridge for the bridge, with one id and one value per gesture. Pushes
\* and the fetches of lights and groups stay in flight.
OneColor == {ActiveColor([hue |-> 1200, saturation |-> 1000, value |-> 1000])}

NextUnpair ==
    \/ OnTogglePopup
    \/ OnLoadLights \/ OnLoadGroups \/ OnLoadScenes
    \/ OnScenesLoadedOk({ScenesA})
    \/ OnUnpairBridge({TRUE})
    \/ OnToggleLight({"1"}, {FALSE}) \/ OnToggleGroup({"1"}, {FALSE})
    \/ OnActivateScene({"s1"})
    \/ OnSetLightBrightness({"1"}, {401})
    \/ OnSetGroupBrightness({"1"}, {401})
    \/ OnSetLightColor(OneColor)
    \/ OnSetGroupColor(OneColor)
    \/ OnApplyLightBrightness \/ OnApplyGroupBrightness
    \/ OnApplyLightColor \/ OnApplyGroupColor

InitUnpair == InitPicked({Some(<<"1", "group">>)})

SpecUnpair == InitUnpair /\ [][NextUnpair]_vars

\* Pushes that fail: a toggle of light 1, scene s1 and committed edits of the
\* brightness of group 1, each push answered Ok or Err. The refresh timers of a
\* scene stay pending.
NextPush ==
    \/ OnToggleLight({"1"}, {FALSE})
    \/ OnActivateScene({"s1"})
    \/ OnSetGroupBrightness({"1"}, {401})
    \/ OnApplyGroupBrightness
    \/ OnPushLands(BOOLEAN) \/ OnResponsesModified
    \/ OnSceneActivatedOk \/ OnSceneActivatedErr

SpecPush == InitUnpair /\ [][NextPush]_vars

-----------------------------------------------------------------------------
(* The three fetches of an opened popup *)

\* "Zeta", "alpha", "Beta", "ALPHA": two names are equal once lower-cased
LightsC ==
    << HueLight("1", <<90, 101, 116, 97>>, Some(TRUE), Some(100), Some(21845), Some(254)),
       HueLight("2", <<97, 108, 112, 104, 97>>, Some(FALSE), Some(254), Some(0), Some(127)),
       HueLight("3", <<66, 101, 116, 97>>, Some(TRUE), Some(1), Some(43690), Some(254)),
       HueLight("4", <<65, 76, 80, 72, 65>>, None, None, None, None) >>
\* "ALPHA" before "alpha"
LightsD ==
    << HueLight("4", <<65, 76, 80, 72, 65>>, Some(TRUE), Some(7), Some(65535), Some(254)),
       HueLight("2", <<97, 108, 112, 104, 97>>, Some(TRUE), Some(200), Some(32768), Some(1)) >>

\* "den", "Attic", "Den", "cellar": "Attic" has a state and no member, the first
\* member of "cellar" is light 4
GroupsC ==
    << HueGroup("1", <<100, 101, 110>>, <<"1", "2">>, Some([any_on |-> TRUE])),
       HueGroup("2", <<65, 116, 116, 105, 99>>, <<>>, Some([any_on |-> FALSE])),
       HueGroup("3", <<68, 101, 110>>, <<"2">>, None),
       HueGroup("4", <<99, 101, 108, 108, 97, 114>>, <<"4", "1">>, Some([any_on |-> TRUE])) >>

\* "relax", "Bright", "Relax"
ScenesC ==
    << HueScene("s1", <<114, 101, 108, 97, 120>>, Some("1")),
       HueScene("s2", <<66, 114, 105, 103, 104, 116>>, None),
       HueScene("s3", <<82, 101, 108, 97, 120>>, Some("2")) >>

\* hues on and next to the sector boundaries, and the extremes of u8 in 0..254
HueSamples == {0, 1, 10922, 10923, 21845, 32767, 32768, 43690, 54612, 54613, 65535}
SatSamples == {0, 127, 254}
BriSamples == {0, 1, 254}
Opt(S) == {None} \cup {Some(x) : x \in S}

\* one light in every sampled state, each component reported or not
ColourLights ==
    {<< HueLight("1", <<90, 101, 116, 97>>, Some(TRUE), bri, hue, sat) >> :
        hue \in Opt(HueSamples), sat \in Opt(SatSamples), bri \in Opt(BriSamples)}

\* TogglePopup has opened the popup on a paired bridge and LoadLights, LoadGroups
\* and LoadScenes have been handled: the three fetches are under way.
InitFetching ==
    /\ config = [bridge_ip |-> Some("192.168.1.2"), username |-> Some("user")]
    /\ popup = Some("popup")
    /\ lights = <<>>
    /\ groups = <<>>
    /\ scenes = <<>>
    /\ color_picker_popup = None
    /\ more_menu_popup = None
    /\ active_color_picker_item = None
    /\ last_active_color_picker_item = None
    /\ pending_light_brightness = {}
    /\ pending_group_brightness = {}
    /\ pending_light_color = {}
    /\ pending_group_color = {}
    /\ debounce_counter = 0
    /\ panicked = FALSE
    /\ color_button_rectangles = {}
    /\ is_scanning = FALSE
    /\ last_discovery = None
    /\ tasks = SetToBag({Fetch("get_all_lights", "LightsLoaded"),
                         Fetch("get_all_groups", "GroupsLoaded"),
                         Fetch("get_all_scenes", "ScenesLoaded")})
    /\ remote = [k \in Keys |-> NoEffect]
    /\ lights_menu_expanded = FALSE
    /\ groups_menu_expanded = FALSE
    /\ scenes_menu_expanded = FALSE
    /\ last = [Msg("LoadScenes") EXCEPT !.ret = One(Fetch("get_all_scenes", "ScenesLoaded"))]
    /\ burst = [k \in Keys |-> NoBurst]

\* The results of the three fetches, handled in any order.
NextLoad ==
    \/ OnLightsLoadedOk(ColourLights \cup {LightsA, LightsC, LightsD})
    \/ OnGroupsLoadedOk({GroupsA, GroupsC})
    \/ OnScenesLoadedOk({ScenesA, ScenesC})

SpecLoad == InitFetching /\ [][NextLoad]_vars

-----------------------------------------------------------------------------
(* A group without members *)

\* LightsA and then GroupsC have been loaded, and the colour button of "Attic",
\* group 2, which has a state and no member, has been pressed.
InitEmptyGroup ==
    /\ config = [bridge_ip |-> Some("192.168.1.2"), username |-> Some("user")]
    /\ popup = Some("popup")
    /\ lights = sort_by(Map(LightVm, LightsA))
    /\ groups = sort_by([i \in 1..Len(GroupsC) |->
                            GroupVm(GroupsC[i], sort_by(Map(LightVm, LightsA)))])
    /\ scenes = sort_by(Map(SceneVm, ScenesA))
    /\ color_picker_popup = None
    /\ more_menu_popup = None
    /\ active_color_picker_item = Some(<<"2", "group">>)
    /\ last_active_color_picker_item = None
    /\ pending_light_brightness = {}
    /\ pending_group_brightness = {}
    /\ pending_light_color = {}
    /\ pending_group_color = {}
    /\ debounce_counter = 0
    /\ panicked = FALSE
    /\ color_button_rectangles = {}
    /\ is_scanning = FALSE
    /\ last_discovery = None
    /\ tasks = EmptyBag
    /\ remote = [k \in Keys |-> NoEffect]
    /\ lights_menu_expanded = FALSE
    /\ groups_menu_expanded = FALSE
    /\ scenes_menu_expanded = FALSE
    /\ last = [Msg("ToggleColorPicker") EXCEPT !.id = "2"]
    /\ burst = [k \in Keys |-> NoBurst]

\* Toggles and edits of group 2, their commits and their pushes.
NextEmptyGroup ==
    \/ OnToggleGroup({"2"}, {TRUE})
    \/ OnSetGroupBrightness({"2"}, {401})
    \/ OnSetGroupColor(ColorPickerUpdates)
    \/ OnApplyGroupBrightness \/ OnApplyGroupColor
    \/ OnPushLands({TRUE}) \/ OnResponsesModified

SpecEmptyGroup == InitEmptyGroup /\ [][NextEmptyGroup]_vars

-----------------------------------------------------------------------------
(* A scene and the refresh that follows it *)

\* the popup shows LightsA and GroupsA; the bridge answers a later fetch with
\* LightsC and GroupsC, and nothing but scenes is asked of the applet
NextRefresh ==
    \/ OnActivateScene({"s1"})
    \/ OnPushLands(BOOLEAN)
    \/ OnSceneActivatedOk \/ OnSceneActivatedErr
    \/ OnResponsesModified
    \/ OnLoadLights \/ OnLoadGroups
    \/ OnLightsLoadedOk({LightsC}) \/ OnGroupsLoadedOk({GroupsC})

SpecRefresh == InitLoaded /\ [][NextRefresh]_vars

-----------------------------------------------------------------------------
(* Finding and pairing a bridge *)

NextPair ==
    \/ OnDiscoverBridge
    \/ OnBridgeDiscoveryFinishedOk({"192.168.1.2", "192.168.1.9"}, BOOLEAN)
    \/ OnBridgeDiscoveryFinishedErr(DiscoveryErrors)
    \/ OnPairBridge
    \/ OnPairBridgeFinishedOk({"user"}, BOOLEAN)
    \/ OnPairBridgeFinishedErr({"link button not pressed"})
    \/ OnLoadLights
    \/ OnLightsLoadedOk({LightsA}) \/ OnLightsLoadedErr
    \/ OnUnpairBridge({TRUE})

SpecPair == Init /\ [][NextPair]_vars

-----------------------------------------------------------------------------
(* The colour picker of an open popup *)

\* the colour buttons the popup shows for LightsA and GroupsA
PickerItems == {<<"1", "light">>, <<"2", "light">>, <<"1", "group">>}

NextPicker ==
    \/ OnToggleColorPicker(PickerItems)
    \/ OnRectanglesUpdated
    \/ OnTryToggleColorPicker

\* the tracker reports the rectangle of a tracked button that is shown, and
\* the runtime delivers a posted message
SpecPicker ==
    /\ InitLoaded /\ [][NextPicker]_vars
    /\ WF_vars(OnRectanglesUpdated) /\ WF_vars(OnTryToggleColorPicker)

\* the tracker reports a rectangle only when it changes, so no report is
\* owed; the runtime still delivers every posted message
SpecRetry == InitLoaded /\ [][NextPicker]_vars /\ WF_vars(OnTryToggleColorPicker)

-----------------------------------------------------------------------------
(* Edits whose timers all elapse *)

\* edits of light 1 and of group 1, unpairing, and the commits; the runtime
\* runs every sleep to its end and delivers its message
NextDrain ==
    \/ OnSetLightBrightness({"1"}, {401})
    \/ OnSetGroupBrightness({"1"}, {401})
    \/ OnSetLightColor(OneColor)
    \/ OnSetGroupColor(OneColor)
    \/ OnUnpairBridge({TRUE})
    \/ OnApplyLightBrightness \/ OnApplyGroupBrightness
    \/ OnApplyLightColor \/ OnApplyGroupColor

SpecDrain ==
    /\ InitUnpair /\ [][NextDrain]_vars
    /\ WF_vars(OnApplyLightBrightness) /\ WF_vars(OnApplyGroupBrightness)
    /\ WF_vars(OnApplyLightColor) /\ WF_vars(OnApplyGroupColor)

-----------------------------------------------------------------------------
(* An edit while a refresh is under way *)

\* a scene is activated and its refresh runs while the brightness of light 1
\* is edited; the bridge answers the fetches with LightsA and GroupsA
NextReload ==
    \/ OnActivateScene({"s1"})
    \/ OnPushLands({TRUE})
    \/ OnSceneActivatedOk \/ OnResponsesModified
    \/ OnLoadLights \/ OnLoadGroups
    \/ OnLightsLoadedOk({LightsA}) \/ OnGroupsLoadedOk({GroupsA})
    \/ OnSetLightBrightness({"1"}, {401})
    \/ OnApplyLightBrightness

SpecReload == InitLoaded /\ [][NextReload]_vars

-----------------------------------------------------------------------------
(* Commits after the bridge was unpaired *)

\* the popup is closed and opened, which posts the three loads; light 1 and
\* group 1 are edited, the bridge is unpaired while the lights fetch is in
\* flight, and it is discovered and paired again; a push that was started
\* stays in flight
NextDrop ==
    \/ OnTogglePopup
    \/ OnLoadLights \/ OnLoadGroups \/ OnLoadScenes
    \/ OnLightsLoadedOk({LightsA})
    \/ OnSetLightBrightness({"1"}, {401})
    \/ OnSetGroupColor(OneColor)
    \/ OnApplyLightBrightness \/ OnApplyGroupColor
    \/ OnUnpairBridge({TRUE})
    \/ OnDiscoverBridge
    \/ OnBridgeDiscoveryFinishedOk({"192.168.1.2"}, {TRUE})
    \/ OnPairBridge
    \/ OnPairBridgeFinishedOk({"user"}, {TRUE})

SpecDrop == InitUnpair /\ [][NextDrop]_vars

-----------------------------------------------------------------------------
(* Scenes of a list that is fetched again *)

\* "Relax" has moved to group 2 and "bright" is gone
ScenesMoved == << HueScene("s1", <<82, 101, 108, 97, 120>>, Some("2")) >>

\* scenes s1, s2 and the unknown s9 are activated; the popup is closed and
\* opened, which fetches the scenes again; the fetches of lights and groups fail
NextScene ==
    \/ OnActivateScene({"s1", "s2", "s9"})
    \/ OnPushLands({TRUE}) \/ OnSceneActivatedOk \/ OnResponsesModified
    \/ OnTogglePopup
    \/ OnLoadLights \/ OnLoadGroups \/ OnLoadScenes
    \/ OnLightsLoadedErr \/ OnGroupsLoadedErr
    \/ OnScenesLoadedOk({ScenesA, ScenesMoved})
    \/ OnUnpairBridge({TRUE})

SpecScene == InitLoaded /\ [][NextScene]_vars

-----------------------------------------------------------------------------
(* The menus and the colour picker of the open popup *)

NextMenu ==
    \/ OnToggleLightsMenu \/ OnToggleGroupsMenu \/ OnToggleScenesMenu
    \/ OnToggleColorPicker(PickerItems)
    \/ OnRectanglesUpdated
    \/ OnTryToggleColorPicker

SpecMenu == InitLoaded /\ [][NextMenu]_vars

-----------------------------------------------------------------------------
(* What the applet prints *)

\* edits of light 1 and their commits, pushes and fetches that fail, and a
\* bridge that is unpaired, searched for and paired again
NextLog ==
    \/ OnSetLightBrightness({"1"}, {401})
    \/ OnSetLightColor(OneColor)
    \/ OnApplyLightBrightness \/ OnApplyLightColor
    \/ OnPushLands({FALSE}) \/ OnResponsesModified
    \/ OnUnpairBridge({TRUE})
    \/ OnDiscoverBridge
    \/ OnBridgeDiscoveryFinishedOk({"192.168.1.2"}, {TRUE})
    \/ OnBridgeDiscoveryFinishedErr(DiscoveryErrors)
    \/ OnPairBridge
    \/ OnPairBridgeFinishedOk({"user"}, {TRUE})
    \/ OnLoadLights
    \/ OnLightsLoadedErr

SpecLog == InitUnpair /\ [][NextLog]_vars

-----------------------------------------------------------------------------
(* Properties of edits and commits (SpecEdit) *)

ApplyOf(cls) ==
    CASE cls = "light_brightness" -> "ApplyLightBrightness"
      [] cls = "group_brightness" -> "ApplyGroupBrightness"
      [] cls = "light_color" -> "ApplyLightColor"
      [] cls = "group_color" -> "ApplyGroupColor"
ApplyNames == {ApplyOf(cls) : cls \in PendingMaps}
SetNames == {"SetLightBrightness", "SetGroupBrightness", "SetLightColor", "SetGroupColor"}

PendingOf(cls) ==
    CASE cls = "light_brightness" -> pending_light_brightness
      [] cls = "group_brightness" -> pending_group_brightness
      [] cls = "light_color" -> pending_light_color
      [] cls = "group_color" -> pending_group_color
ClassOf(name) == CHOOSE cls \in PendingMaps : ApplyOf(cls) = name

\* the commits of the current run of key k that have not been processed
CommitsLeft(k) ==
    {t \in BagToSet(tasks) :
        t.op = "sleep" /\ t.then = ApplyOf(k[1]) /\ t.id = k[2] /\ t.cnt >= burst[k].start}

\* what a push of the last edit of the run carries, in the units of the bridge
Wanted(k) ==
    IF k[1] \in {"light_brightness", "group_brightness"}
    THEN [NoMod EXCEPT !.brightness = Some(as_u8(burst[k].bri))]
    ELSE LET c == hsv_palette_to_hsv_lib(burst[k].hsv)
         IN  [NoMod EXCEPT !.hue = Some(c[1]), !.saturation = Some(c[2]), !.brightness = Some(c[3])]

\* C1. Debounce: for a run of N >= 1 edits of one key, all submitted before a commit
\* of the run is processed and followed by no later edit of the key, with the bridge
\* configured: once the N commits have been processed, exactly one push has been
\* issued for the key, and it carries the value of the last edit.
C1_Debounce ==
    \A k \in Keys :
        (burst[k].n >= 1 /\ burst[k].cfg /\ CommitsLeft(k) = {})
            => (burst[k].pushes = 1 /\ burst[k].pushed = Wanted(k))

\* a run of two edits of group 1's brightness, the first to 1.5 and the last to 200.5,
\* has had both commits processed
C1_Witness ==
    LET k == <<"group_brightness", "1">>
    IN  /\ burst[k].n = 2 /\ burst[k].bri = 401 /\ CommitsLeft(k) = {}
        /\ burst[k].pushes = 1
        /\ burst[k].pushed.brightness = Some(200)
        /\ groups[Find(groups, "1")].brightness = Some(200)

\* C2. A push carrying an older edit of a key never takes effect at the bridge after
\* a push carrying a newer edit of the same key, whatever the order in which the
\* transport completes the pushes in flight.
C2_NoStaleLanding ==
    [][\A k \in Keys : remote'[k].cnt >= remote[k].cnt]_vars

\* a step of update() handling one of the messages `names`
Handles(names) == last' # last /\ last'.msg \in names

\* the commit being handled finds no Pending Edit or one with another counter
IsStale ==
    LET e == HashMapGet(PendingOf(ClassOf(last'.msg)), last'.id)
    IN  e = None \/ Unwrap(e).counter # last'.cnt

AtMostOnePerKey ==
    \A cls \in PendingMaps : \A e1, e2 \in PendingOf(cls) : e1.id = e2.id => e1 = e2

\* C3. A stale commit is a no-op: it issues no push and leaves the view model, the
\* pending-edit maps and the generation counter unchanged; and every key holds at
\* most one Pending Edit in every reachable state.
C3_StaleCommitNoOp ==
    /\ []AtMostOnePerKey
    /\ [][(Handles(ApplyNames) /\ IsStale)
            => (last'.ret = EmptyBag /\ UNCHANGED <<lights, groups, scenes, pendings, debounce_counter>>)]_vars

\* the commit of a superseded edit of group 1's brightness has just been handled:
\* the Pending Edit of the key carries a later counter
C3_Witness ==
    /\ last.msg = "ApplyGroupBrightness" /\ last.id = "1" /\ last.ret = EmptyBag
    /\ \E e \in pending_group_brightness : e.id = "1" /\ e.counter > last.cnt

\* the edit being handled names a resource that is not in the store
IsAbsent ==
    CASE last'.msg = "SetLightBrightness" -> Find(lights, last'.id) = 0
      [] last'.msg = "SetGroupBrightness" -> Find(groups, last'.id) = 0
      [] last'.msg = "SetLightColor" -> ActiveIn(lights) = 0
      [] last'.msg = "SetGroupColor" -> ActiveIn(groups) = 0

\* C4. An edit for an id that is not in the store is a no-op: the generation counter
\* is not incremented, no Pending Edit is created or replaced and no commit is
\* scheduled.
C4_AbsentEditNoOp ==
    [][(Handles(SetNames) /\ IsAbsent)
        => (last'.ret = EmptyBag /\ UNCHANGED <<pendings, debounce_counter>>)]_vars

LightShows(ls, i, bri) == ls[i].brightness = Some(as_u8(bri))
LightColored(ls, i, hsv) == ls[i].color = Some(hsv_palette_to_rgb(hsv))

\* C5 as claimed. After an edit the store shows the new value: the light of a light
\* edit, and the group and every member light in the store of a group edit, also
\* when the group's brightness was unknown.
C5_OptimisticUpdateAlways ==
    /\ (last.msg = "SetLightBrightness" /\ Find(lights, last.id) # 0)
            => LightShows(lights, Find(lights, last.id), last.bri)
    /\ (last.msg = "SetLightColor" /\ last.ok)
            => LightColored(lights, Find(lights, last.id), last.hsv)
    /\ (last.msg = "SetGroupBrightness" /\ Find(groups, last.id) # 0)
            => LET g == groups[Find(groups, last.id)]
               IN  /\ g.brightness = Some(as_u8(last.bri))
                   /\ \A i \in Members(lights, g) : LightShows(lights, i, last.bri)
    /\ (last.msg = "SetGroupColor" /\ last.ok)
            => LET g == groups[Find(groups, last.id)]
               IN  /\ g.color = Some(hsv_palette_to_rgb(last.hsv))
                   /\ \A i \in Members(lights, g) : LightColored(lights, i, last.hsv)

\* C5 as amended. The same, but a brightness edit of a group whose displayed
\* brightness is unknown changes neither the group nor any light.
C5_OptimisticUpdate ==
    [][Handles(SetNames) =>
        /\ (last'.msg = "SetLightBrightness" /\ Find(lights, last'.id) # 0)
                => LightShows(lights', Find(lights, last'.id), last'.bri)
        /\ (last'.msg = "SetLightColor" /\ last'.ok)
                => LightColored(lights', Find(lights, last'.id), last'.hsv)
        /\ (last'.msg = "SetGroupBrightness" /\ Find(groups, last'.id) # 0)
                => LET g == Find(groups, last'.id)
                   IN  IF IsSome(groups[g].brightness)
                       THEN /\ groups'[g].brightness = Some(as_u8(last'.bri))
                            /\ \A i \in Members(lights, groups[g]) : LightShows(lights', i, last'.bri)
                       ELSE UNCHANGED <<lights, groups>>
        /\ (last'.msg = "SetGroupColor" /\ last'.ok)
                => LET g == Find(groups, last'.id)
                   IN  /\ groups'[g].color = Some(hsv_palette_to_rgb(last'.hsv))
                       /\ \A i \in Members(lights, groups[g]) : LightColored(lights', i, last'.hsv)
      ]_vars

\* group 1, shown at 100 with both members in the store, has been set to 200.5:
\* the group and both lights show 200
C5_Witness ==
    /\ last.msg = "SetGroupBrightness" /\ last.id = "1" /\ last.bri = 401
    /\ groups[Find(groups, "1")].brightness = Some(200)
    /\ Members(lights, groups[Find(groups, "1")]) = {1, 2}
    /\ \A i \in {1, 2} : lights[i].brightness = Some(200)

-----------------------------------------------------------------------------
(* Properties of toggles and scenes (SpecToggle) *)

\* C6. After ToggleGroup(id, new_on) for a group in the store, the group and every
\* member light in the store show new_on, before any result of the push is handled;
\* after ToggleLight(id, new_on) the light shows new_on.
C6_ToggleInSameStep ==
    /\ (last.msg = "ToggleGroup" /\ Find(groups, last.id) # 0)
            => LET g == groups[Find(groups, last.id)]
               IN  /\ g.on = Some(last.on)
                   /\ \A i \in Members(lights, g) : lights[i].on = Some(last.on)
    /\ (last.msg = "ToggleLight" /\ Find(lights, last.id) # 0)
            => lights[Find(lights, last.id)].on = Some(last.on)

\* group 1 has been switched off while its push is in flight: the group and
\* its two lights, of which light 1 was on, show off
C6_Witness ==
    /\ last.msg = "ToggleGroup" /\ last.id = "1" /\ ~last.on
    /\ \E t \in InFlight : t.op = "set_group_state" /\ t.id = "1" /\ t.mod.on = Some(FALSE)
    /\ groups[Find(groups, "1")].on = Some(FALSE)
    /\ Members(lights, groups[Find(groups, "1")]) = {1, 2}
    /\ \A i \in {1, 2} : lights[i].on = Some(FALSE)

\* ActivateScene for a scene in the store, with the bridge configured, returns one
\* push of the scene, addressed to the group of the scene
OnePushToGroup ==
    (last.msg = "ActivateScene" /\ Find(scenes, last.id) # 0 /\ IsSome(get_bridge(config)))
        => \E t \in BagToSet(last.ret) :
              /\ last.ret = One(t)
              /\ t.op = "set_group_state" /\ t.res = "inflight"
              /\ t.id = scenes[Find(scenes, last.id)].group
              /\ t.mod = with_scene(NoMod, last.id)

\* the timers a handler returned that end in LoadLights or LoadGroups
Refreshes == {t \in BagToSet(last.ret) : t.op = "sleep" /\ t.then \in {"LoadLights", "LoadGroups"}}

\* one timer for the lights and one for the groups, both of the convergence delay,
\* and no fetch started at once
TwoRefreshes ==
    /\ {t.then : t \in Refreshes} = {"LoadLights", "LoadGroups"}
    /\ \A t \in Refreshes : CopiesIn(t, last.ret) = 1 /\ t.delay = ConvergenceDelaySecs * 1000
    /\ Cardinality(Refreshes) = 2
    /\ \A t \in BagToSet(last.ret) : ~IsFetch(t) /\ ~IsPush(t)

\* C7 as claimed. Activating a scene issues one push to its group, and the result
\* of the push, Ok or Err, schedules the two refreshes after the convergence delay.
C7_RefreshAlways ==
    /\ OnePushToGroup
    /\ last.msg = "SceneActivated" => TwoRefreshes

\* C7 as amended. Activating a scene issues one push to its group; the result Ok
\* schedules the two refreshes after the convergence delay, the result Err
\* schedules nothing.
C7_RefreshOnSuccess ==
    /\ OnePushToGroup
    /\ (last.msg = "SceneActivated" /\ last.ok) => TwoRefreshes
    /\ (last.msg = "SceneActivated" /\ ~last.ok) => last.ret = EmptyBag

\* the push of a scene has succeeded and its result has been handled: the two
\* timers are pending
C7_Witness ==
    /\ last.msg = "SceneActivated" /\ last.ok
    /\ \A m \in {"LoadLights", "LoadGroups"} : \E t \in BagToSet(tasks) : t.op = "sleep" /\ t.then = m

-----------------------------------------------------------------------------
(* Properties of the configuration (SpecUnpair) and of failures (SpecFetch, SpecPush) *)

RemoteNames == {"LoadLights", "LoadGroups", "LoadScenes", "ToggleLight", "ToggleGroup", "ActivateScene"}

\* C8. While the bridge address or the access token is absent, LoadLights,
\* LoadGroups, LoadScenes, ToggleLight, ToggleGroup, ActivateScene and the four
\* commits return no task: no fetch and no push is started.
C8_NoRemoteWithoutConfig ==
    (last.msg \in RemoteNames \cup ApplyNames /\ (config.bridge_ip = None \/ config.username = None))
        => last.ret = EmptyBag

\* the commit of an edit of group 1 has been handled after the bridge was unpaired:
\* its Pending Edit is gone and nothing was pushed
C8_Witness ==
    /\ last.msg = "ApplyGroupBrightness" /\ last.id = "1"
    /\ config.username = None
    /\ pending_group_brightness = {}
    /\ burst[<<"group_brightness", "1">>].pushes = 0
    /\ ~\E t \in BagToSet(tasks) : IsPush(t) \/ IsFetch(t)

LoadedNames == {"LightsLoaded", "GroupsLoaded", "ScenesLoaded"}

\* C9. Handling LightsLoaded(Err), GroupsLoaded(Err) or ScenesLoaded(Err) leaves
\* the lights, groups and scenes, the pending-edit maps and the generation counter
\* unchanged, and update() returns normally. Every step of SpecFetch is a step of
\* update(), so the message of the step is last'.
C9_FetchFailureKeepsSnapshot ==
    [][(last'.msg \in LoadedNames /\ ~last'.ok)
        => (~panicked' /\ UNCHANGED <<lights, groups, scenes, pendings, debounce_counter>>)]_vars

\* a second fetch of the lights has failed: the lights of the first are still shown
C9_Witness ==
    /\ last.msg = "LightsLoaded" /\ ~last.ok
    /\ lights = sort_by(Map(LightVm, LightsA))

\* the results Err of pushes that update() has not handled yet
Failures == BagCardinality([t \in {u \in BagToSet(tasks) : IsPush(u) /\ u.res = "err"} |-> CopiesIn(t, tasks)])

\* C10. The step that handles the failure of a push (ResponsesModified(Err) or
\* SceneActivated(Err)) removes that result and adds no task, so no push and no
\* commit, and leaves the lights, groups and scenes unchanged.
C10_NoRetryNoRollback ==
    [][Failures' < Failures
        => /\ \E t \in BagToSet(tasks) : IsPush(t) /\ t.res = "err" /\ tasks' = Without(t)
           /\ UNCHANGED <<lights, groups, scenes>>]_vars

\* the push of the committed edit of group 1 to 200.5 has failed and the failure
\* has been handled: the group still shows 200 and nothing is in flight
C10_Witness ==
    /\ last.msg = "ResponsesModified" /\ ~last.ok
    /\ burst[<<"group_brightness", "1">>].pushes = 1
    /\ remote[<<"group_brightness", "1">>] = NoEffect
    /\ groups[Find(groups, "1")].brightness = Some(200)
    /\ tasks = EmptyBag

-----------------------------------------------------------------------------
(* Properties of the replacement of the lists (SpecLoad) *)

LoadedList ==
    CASE last.msg = "LightsLoaded" -> lights
      [] last.msg = "GroupsLoaded" -> groups
      [] last.msg = "ScenesLoaded" -> scenes

\* the view model of the k-th fetched item
VmOf(k) ==
    CASE last.msg = "LightsLoaded" -> LightVm(last.got[k])
      [] last.msg = "GroupsLoaded" -> GroupVm(last.got[k], lights)
      [] last.msg = "ScenesLoaded" -> SceneVm(last.got[k])

\* C11. After LightsLoaded(Ok), GroupsLoaded(Ok) or ScenesLoaded(Ok) the list holds
\* the view models of exactly the fetched items, ascending by lower-cased name, and
\* items whose lower-cased names are equal are in their fetch order.
C11_DisplayOrder ==
    (last.msg \in LoadedNames /\ last.ok) =>
        /\ Len(LoadedList) = Len(last.got)
        /\ \A k \in 1..Len(last.got) :
              Cardinality({i \in 1..Len(LoadedList) : LoadedList[i] = VmOf(k)}) = 1
        /\ \A i, j \in 1..Len(LoadedList) :
              i < j =>
                LET a == to_lowercase(LoadedList[i].name)
                    b == to_lowercase(LoadedList[j].name)
                IN  /\ ~StrLess(b, a)
                    /\ a = b => Find(last.got, LoadedList[i].id) < Find(last.got, LoadedList[j].id)

\* "Zeta", "alpha", "Beta", "ALPHA" have been fetched: the lights are shown as
\* "alpha", "ALPHA", "Beta", "Zeta"
C11_Witness ==
    /\ last.msg = "LightsLoaded" /\ last.got = LightsC
    /\ [i \in 1..Len(lights) |-> lights[i].name] =
           << <<97, 108, 112, 104, 97>>, <<65, 76, 80, 72, 65>>, <<66, 101, 116, 97>>, <<90, 101, 116, 97>> >>
    /\ [i \in 1..Len(lights) |-> lights[i].id] = <<"2", "4", "3", "1">>

-----------------------------------------------------------------------------
(* Properties of a group without members (SpecEmptyGroup) *)

Memberless == {g \in 1..Len(groups) : groups[g].lights = <<>>}

-----------------------------------------------------------------------------
(* Properties of the colour conversion (SpecLoad) *)

Unreported(st) == st.hue = None \/ st.saturation = None \/ st.brightness = None

\* C13. hsv_to_rgb gives (0,0,0) when the hue, the saturation or the brightness is
\* None, whatever the other two are; so a light fetched with one of them missing
\* is shown with the colour (0,0,0).
C13_UnknownIsBlack ==
    /\ \A hue \in Opt(HueSamples), sat \in Opt(SatSamples), bri \in Opt(BriSamples) :
          (hue = None \/ sat = None \/ bri = None) => hsv_to_rgb(hue, sat, bri) = Black
    /\ (last.msg = "LightsLoaded" /\ last.ok) =>
          \A k \in 1..Len(last.got) :
              Unreported(last.got[k].state)
                  => lights[Find(lights, last.got[k].id)].color = Some(Black)

\* a light fetched with saturation 254 and brightness 254 but no hue is shown
\* with brightness 254 and the colour (0,0,0)
C13_Witness ==
    /\ last.msg = "LightsLoaded" /\ Len(last.got) = 1
    /\ last.got[1].state.hue = None
    /\ last.got[1].state.saturation = Some(254)
    /\ last.got[1].state.brightness = Some(254)
    /\ lights[1].brightness = Some(254)
    /\ lights[1].color = Some(Black)

\* the sector of the standard conversion: 60 n <= h < 60 (n + 1) for h = 360 hue / 65535,
\* the last one closed at 360
SectorOf(hue) ==
    CHOOSE n \in 0..5 :
        /\ 60 * n * 65535 <= 360 * hue
        /\ 360 * hue < 60 * (n + 1) * 65535 \/ (n = 5 /\ hue = 65535)

\* the standard conversion in the units of a channel, 1/254^2: C = c + m, M = m and
\* X = x + m for c = v s, m = v - c and x = c (1 - |(h / 60) mod 2 - 1|). X lies between
\* M and C; it is M where h is a multiple of 120, and it is given in full where the
\* products stay within 32 bits
StandardRgb(rgb, hue, sat, bri) ==
    LET C == << bri * 254, 0 >>
        M == << bri * (254 - sat), 0 >>
        k == (6 * hue) % 131070
        t == IF k >= 65535 THEN 131070 - k ELSE k
        n == SectorOf(hue)
        at == CASE n = 0 -> <<1, 2, 3>> [] n = 1 -> <<2, 1, 3>> [] n = 2 -> <<2, 3, 1>>
                [] n = 3 -> <<3, 2, 1>> [] n = 4 -> <<3, 1, 2>> [] n = 5 -> <<1, 3, 2>>
        X == rgb[at[2]]
    IN  /\ rgb[at[1]] = C
        /\ rgb[at[3]] = M
        /\ X[1] >= M[1] /\ X[1] <= C[1] /\ X[2] >= 0 /\ X[2] < 65535
        /\ (X[1] = C[1]) => X[2] = 0
        /\ (hue \in {0, 21845, 43690, 65535}) => X = M
        /\ (bri <= 1) => X[1] * 65535 + X[2] = M[1] * 65535 + sat * bri * t

\* C14. For the hue, saturation and brightness of a light, hsv_to_rgb is the standard
\* conversion with h = 360 hue / 65535 and half-open sectors of 60 degrees, the last
\* closed at 360; hsv_to_rgb(0, 254, 254) is (1,0,0) and hsv_to_rgb(21845, 254, 254)
\* is (0,1,0). Stated of hsv_to_rgb and of the colour of a light just fetched.
C14_SectorSelection ==
    /\ \A hue \in HueSamples, sat \in SatSamples, bri \in BriSamples :
          StandardRgb(hsv_to_rgb(Some(hue), Some(sat), Some(bri)), hue, sat, bri)
    /\ hsv_to_rgb(Some(0), Some(254), Some(254)) = << <<254 * 254, 0>>, <<0, 0>>, <<0, 0>> >>
    /\ hsv_to_rgb(Some(21845), Some(254), Some(254)) = << <<0, 0>>, <<254 * 254, 0>>, <<0, 0>> >>
    /\ (last.msg = "LightsLoaded" /\ last.ok) =>
          \A k \in 1..Len(last.got) :
              LET st == last.got[k].state
              IN  ~Unreported(st) =>
                    StandardRgb(Unwrap(lights[Find(lights, last.got[k].id)].color),
                                Unwrap(st.hue), Unwrap(st.saturation), Unwrap(st.brightness))

\* a light fetched with hue 10923, just past 60 degrees, saturation 254 and
\* brightness 254 is shown with green at 1, blue at 0 and red just below 1
C14_Witness ==
    /\ last.msg = "LightsLoaded" /\ Len(last.got) = 1
    /\ last.got[1].state = [on |-> Some(TRUE), brightness |-> Some(254),
                             hue |-> Some(10923), saturation |-> Some(254)]
    /\ Unwrap(lights[1].color)[2] = <<254 * 254, 0>>
    /\ Unwrap(lights[1].color)[3] = <<0, 0>>
    /\ Unwrap(lights[1].color)[1][1] = 254 * 254 - 3

-----------------------------------------------------------------------------
(* Properties of the generation counter and of the Pending Edits (SpecUnpair) *)

\* the Pending Edits of the four maps, each with the class of its map
Stamps == UNION {{<<cls, e>> : e \in PendingOf(cls)} : cls \in PendingMaps}

StampsInOrder ==
    /\ debounce_counter >= 0
    /\ \A p \in Stamps : p[2].counter >= 1 /\ p[2].counter <= debounce_counter
    /\ \A p, q \in Stamps : p[2].counter = q[2].counter => p = q

CounterStep ==
    /\ (debounce_counter' # debounce_counter) =>
          (/\ debounce_counter' = debounce_counter + 1
           /\ last'.msg \in SetNames /\ last'.ok /\ last'.cnt = debounce_counter')
    /\ (Handles(SetNames) /\ last'.ok) => (debounce_counter' = debounce_counter + 1)

\* C15. The counter never decreases and is never set back, not by UnpairBridge and
\* not by a fetch: a step changes it only by handling an edit that is accepted, and
\* then by exactly 1, and the edit gets the new value as its stamp; no other step
\* changes it. Every stamp in a pending-edit map is at most the counter and differs
\* from every other stamp. (The counter is 0 at init.)
C15_CounterDiscipline ==
    /\ []StampsInOrder
    /\ [][CounterStep]_vars

\* two edits have been stamped 1 and 2 and the bridge has then been unpaired: the
\* counter is still 2 and both Pending Edits are kept
C15_Witness ==
    /\ last.msg = "UnpairBridge" /\ last.ok
    /\ debounce_counter = 2
    /\ {p[2].counter : p \in Stamps} = {1, 2}

\* the class of edits a Set* message belongs to, and the value it stores
EditClass(name) ==
    CASE name = "SetLightBrightness" -> "light_brightness"
      [] name = "SetGroupBrightness" -> "group_brightness"
      [] name = "SetLightColor" -> "light_color"
      [] name = "SetGroupColor" -> "group_color"
EditValue(m) ==
    IF m.msg \in {"SetLightBrightness", "SetGroupBrightness"} THEN m.bri
    ELSE hsv_palette_to_hsv_lib(m.hsv)

\* the commits scheduled and not yet handled for a Pending Edit e of class cls
CommitsFor(cls, e) ==
    {t \in BagToSet(tasks) :
        t.op = "sleep" /\ t.then = ApplyOf(cls) /\ t.id = e.id /\ t.cnt = e.counter}

\* C16. An accepted edit leaves, as the one Pending Edit of its key, its value with
\* the counter it allocated, and returns exactly one commit, of the settle delay,
\* with that id and counter; and in every reachable state every Pending Edit has a
\* commit with its id and counter that is scheduled and not yet handled.
C16_CommitOutstanding ==
    /\ \A p \in Stamps : CommitsFor(p[1], p[2]) # {}
    /\ (last.msg \in SetNames /\ last.ok) =>
          /\ last.ret = One(Task("sleep", SettleDelayMs, ApplyOf(EditClass(last.msg)),
                                 last.id, last.cnt, NoMod, "ok", ""))
          /\ {e \in PendingOf(EditClass(last.msg)) : e.id = last.id}
                = {[id |-> last.id, value |-> EditValue(last), counter |-> last.cnt]}

\* the brightness of group 1 has been edited twice: its Pending Edit carries the
\* counter 2 and the commits of both edits are scheduled
C16_Witness ==
    /\ last.msg = "SetGroupBrightness" /\ last.id = "1" /\ last.cnt = 2
    /\ pending_group_brightness = {[id |-> "1", value |-> 401, counter |-> 2]}
    /\ {t.cnt : t \in {u \in BagToSet(tasks) : u.then = "ApplyGroupBrightness" /\ u.id = "1"}} = {1, 2}

\* ---------------------------------------------------------------------------
\* C17  the commit that matches
\* ---------------------------------------------------------------------------

\* the endpoint of a key: lights are pushed to the light endpoint, groups to
\* the group endpoint
EndpointOf(cls) ==
    IF cls \in {"light_brightness", "light_color"} THEN "set_light_state" ELSE "set_group_state"

\* the modifier that carries a stored value: a brightness as the integer part
\* of the stored float, a color as its hue, saturation and brightness
Carries(cls, value) ==
    IF cls \in {"light_brightness", "group_brightness"}
    THEN [NoMod EXCEPT !.brightness = <<as_u8(value)>>]
    ELSE [NoMod EXCEPT !.hue = <<value[1]>>, !.saturation = <<value[2]>>,
                       !.brightness = <<value[3]>>]

\* a step that handles a commit whose counter is the one stored for its key
Matches == Handles(ApplyNames) /\ ~IsStale

PendingAfter(cls) ==
    CASE cls = "light_brightness" -> pending_light_brightness'
      [] cls = "group_brightness" -> pending_group_brightness'
      [] cls = "light_color"      -> pending_light_color'
      [] OTHER                    -> pending_group_color'

\* the Pending Edit of the committed key is gone and the others are untouched
EntryRemoved ==
    LET cls == ClassOf(last'.msg)
    IN  /\ PendingAfter(cls) = {e \in PendingOf(cls) : e.id # last'.id}
        /\ \A other \in PendingMaps \ {cls} : PendingAfter(other) = PendingOf(other)

\* the step issued exactly one push, for the committed id, to the endpoint of
\* the key, carrying the stored value
OnePushOfStored ==
    LET cls == ClassOf(last'.msg)
        e   == CHOOSE x \in PendingOf(cls) : x.id = last'.id
    IN  /\ BagCardinality(last'.ret) = 1
        /\ \A t \in BagToSet(last'.ret) :
              /\ t.op = EndpointOf(cls) /\ t.id = last'.id
              /\ t.mod = Carries(cls, e.value)
              /\ t.res = "inflight" /\ t.then = "ResponsesModified"

Configured == config.bridge_ip # None /\ config.username # None

\* C17 as stated: a matching commit removes the Pending Edit and issues exactly
\* one push for that id, to the light endpoint for a light key and to the group
\* endpoint for a group key, carrying the value stored in the Pending Edit
C17_MatchingCommitPushes ==
    [][Matches => (EntryRemoved /\ OnePushOfStored)]_vars

\* C17 amended: a matching commit always removes the Pending Edit; with the
\* bridge configured it issues exactly one push for that id, to the endpoint of
\* the key, carrying the stored value (a brightness as its integer part);
\* without a configured bridge it issues nothing
C17_MatchingCommit ==
    [][Matches => /\ EntryRemoved
                  /\ (Configured => OnePushOfStored)
                  /\ (~Configured => last'.ret = EmptyBag)]_vars

C17_Witness ==
    /\ last.msg = "ApplyLightColor" /\ last.id = "1"
    /\ pending_light_color = {}
    /\ \E t \in BagToSet(last.ret) : t.op = "set_light_state" /\ IsSome(t.mod.hue)
    /\ \E t \in BagToSet(tasks) : t.op = "set_group_state" /\ IsSome(t.mod.brightness)
                                     /\ ~IsSome(t.mod.hue)

\* ---------------------------------------------------------------------------
\* C18  toggles are not debounced
\* ---------------------------------------------------------------------------

ToggleNames == {"ToggleLight", "ToggleGroup"}

\* the push a toggle sends: the on-state alone, to the endpoint of the kind,
\* in flight at once
TogglePush ==
    [op |-> IF last'.msg = "ToggleLight" THEN "set_light_state" ELSE "set_group_state",
     delay |-> 0, then |-> "ResponsesModified", id |-> last'.id, cnt |-> 0,
     mod |-> [NoMod EXCEPT !.on = <<last'.on>>], res |-> "inflight", cls |-> ""]

\* C18: with the bridge configured, a ToggleLight or ToggleGroup step issues
\* exactly one push in that same step, on top of whatever is already
\* outstanding (so K toggles issue K pushes), and leaves the generation counter
\* and the four pending maps as they were
C18_ToggleImmediate ==
    [][(last'.msg \in ToggleNames /\ Configured) =>
          /\ last'.ret = SetToBag({TogglePush})
          /\ tasks' = tasks (+) SetToBag({TogglePush})
          /\ debounce_counter' = debounce_counter
          /\ UNCHANGED <<pending_light_brightness, pending_group_brightness,
                         pending_light_color, pending_group_color>>]_vars

C18_Witness ==
    /\ last.msg = "ToggleGroup" /\ last.id = "1" /\ Configured
    /\ debounce_counter = 1
    /\ pending_group_brightness = {[id |-> "1", value |-> 401, counter |-> 1]}
    /\ \E t \in BagToSet(last.ret) : t.op = "set_group_state" /\ t.res = "inflight"

-----------------------------------------------------------------------------
(* Properties of the refresh after a scene (SpecRefresh) *)

\* the tasks a handler returned that end in the message m
Deferred(m) == {t \in BagToSet(last.ret) : t.then = m}

\* one timer of the convergence delay for the groups, one for the lights, none
\* for the scenes, and no fetch at once
OneTimerEach ==
    /\ \A m \in {"LoadGroups", "LoadLights"} :
          /\ Cardinality(Deferred(m)) = 1
          /\ \A t \in Deferred(m) :
                /\ CopiesIn(t, last.ret) = 1
                /\ t.op = "sleep" /\ t.delay = ConvergenceDelaySecs * 1000
    /\ Deferred("LoadScenes") = {}
    /\ \A t \in BagToSet(last.ret) : ~IsFetch(t)

RefreshNames == {"LoadLights", "LoadGroups", "LightsLoaded", "GroupsLoaded"}

\* a result has just been processed and no reload or fetch is left: every
\* reload a scene scheduled has been fetched and its result processed
RefreshDone ==
    /\ last.msg \in {"LightsLoaded", "GroupsLoaded"}
    /\ \A t \in BagToSet(tasks) : t.then \notin RefreshNames

\* what a fetch tells of a group
FetchedOf(g) == [id |-> g.id, name |-> g.name, on |-> g.on, lights |-> g.lights]

ListsHoldFetched ==
    /\ lights = sort_by([i \in 1..Len(LightsC) |-> LightVm(LightsC[i])])
    /\ [i \in 1..Len(groups) |-> FetchedOf(groups[i])]
          = LET fresh == sort_by([i \in 1..Len(GroupsC) |-> GroupVm(GroupsC[i], <<>>)])
            IN  [i \in 1..Len(fresh) |-> FetchedOf(fresh[i])]

\* a step that starts a fetch handles LoadLights or LoadGroups and uses up a
\* timer of the convergence delay that ended in that message
FetchAfterDelay ==
    (\E t \in BagToSet(tasks') : IsFetch(t) /\ CopiesIn(t, tasks') > CopiesIn(t, tasks)) =>
        /\ last'.msg \in {"LoadLights", "LoadGroups"}
        /\ \E u \in BagToSet(tasks) :
              /\ u.op = "sleep" /\ u.delay = ConvergenceDelaySecs * 1000
              /\ u.then = last'.msg
              /\ CopiesIn(u, tasks') = CopiesIn(u, tasks) - 1

\* C19: a successful scene push schedules exactly one deferred LoadGroups and
\* one deferred LoadLights and no reload of the scenes; a fetch is started only
\* by the LoadLights or LoadGroups that its elapsed timer delivers; and once
\* the results of both fetches have been processed the lights and the groups
\* hold what was fetched
C19_ConvergenceRefresh ==
    /\ []((last.msg = "SceneActivated" /\ last.ok) => OneTimerEach)
    /\ [](RefreshDone => ListsHoldFetched)
    /\ [][FetchAfterDelay]_vars

C19_Witness ==
    /\ RefreshDone /\ last.msg = "GroupsLoaded"
    /\ Len(lights) = Len(LightsC) /\ Len(groups) = Len(GroupsC)
    /\ lights # sort_by([i \in 1..Len(LightsA) |-> LightVm(LightsA[i])])

-----------------------------------------------------------------------------
(* Properties of the two results of one opening (SpecLoad) *)

\* the results of the lights fetch and of the groups fetch have been processed
BothProcessed ==
    \A t \in BagToSet(tasks) : t.then \notin {"LightsLoaded", "GroupsLoaded"}

\* the place in the lights of the first member of the g-th group, 0 if none
FirstMember(g) ==
    IF groups[g].lights = <<>> THEN 0 ELSE Find(lights, groups[g].lights[1])

\* C20: once LightsLoaded and GroupsLoaded of fetches started together have
\* been processed, in either order, every group whose first member is one of
\* the lights displays the brightness and the color of that light as fetched
C20_OrderIndependent ==
    BothProcessed =>
        \A g \in 1..Len(groups) :
            FirstMember(g) # 0 =>
                /\ groups[g].brightness = lights[FirstMember(g)].brightness
                /\ groups[g].color = lights[FirstMember(g)].color

-----------------------------------------------------------------------------
(* Properties of the groups as replaced (SpecLoad) *)

\* C21: right after GroupsLoaded(Ok) a group whose first member id finds a
\* light shows the brightness and the color of that light alone, and a group
\* without members, or whose first member id finds no light, shows no
\* brightness and the color (0,0,0)
C21_MirrorAtReplacement ==
    (last.msg = "GroupsLoaded" /\ last.ok) =>
        \A g \in 1..Len(groups) :
            LET ids == groups[g].lights
                hit == IF ids = <<>> THEN {} ELSE {i \in 1..Len(lights) : lights[i].id = ids[1]}
            IN  IF hit # {}
                THEN \E i \in hit :
                        /\ \A j \in hit : i <= j
                        /\ groups[g].brightness = lights[i].brightness
                        /\ groups[g].color = lights[i].color
                ELSE /\ groups[g].brightness = None
                     /\ groups[g].color = << << <<0, 0>>, <<0, 0>>, <<0, 0>> >> >>

\* GroupsC replaced the groups while the lights of LightsA were shown: "den"
\* mirrors light 1, "Attic" has no member and the first member of "cellar" is
\* no light of the store
C21_Witness ==
    /\ last.msg = "GroupsLoaded" /\ last.ok /\ last.got = GroupsC
    /\ Len(lights) = 2 /\ Find(lights, "1") # 0 /\ Find(lights, "4") = 0
    /\ \E g \in 1..Len(groups) :
          /\ groups[g].id = "1"
          /\ groups[g].brightness = <<100>>
          /\ groups[g].brightness # lights[Find(lights, "2")].brightness

\* the group shown for the k-th fetched group
ShownFor(k) == groups[CHOOSE g \in 1..Len(groups) : groups[g].id = last.got[k].id]

\* the lights of the store a fetched group names whose on-state is known
KnownMembers(k) ==
    {i \in 1..Len(lights) :
        /\ \E j \in 1..Len(last.got[k].lights) : last.got[k].lights[j] = lights[i].id
        /\ lights[i].on # <<>>}

\* C22 as stated: after GroupsLoaded(Ok) a group fetched with a state is on as
\* its any_on says, and a group fetched without one is on exactly when one of
\* its member lights with a known on-state is on
C22_OnFallbackOr ==
    (last.msg = "GroupsLoaded" /\ last.ok) =>
        \A k \in 1..Len(last.got) :
            IF last.got[k].state # <<>>
            THEN ShownFor(k).on = <<last.got[k].state[1].any_on>>
            ELSE KnownMembers(k) # {} =>
                    ShownFor(k).on = <<\E i \in KnownMembers(k) : lights[i].on = <<TRUE>> >>

\* C22 amended: after GroupsLoaded(Ok) a group fetched with a state is on as
\* its any_on says, and the on-state of a group fetched without one is
\* unknown, whatever its member lights are
C22_OnAsFetched ==
    (last.msg = "GroupsLoaded" /\ last.ok) =>
        \A k \in 1..Len(last.got) :
            IF last.got[k].state # <<>>
            THEN ShownFor(k).on = <<last.got[k].state[1].any_on>>
            ELSE ShownFor(k).on = <<>>

\* "Den" was fetched without state while its only member, light 2, is known
\* to be off
C22_Witness ==
    /\ last.msg = "GroupsLoaded" /\ last.ok /\ last.got = GroupsC
    /\ \E i \in 1..Len(lights) : lights[i].id = "2" /\ lights[i].on = <<FALSE>>
    /\ \E g \in 1..Len(groups) : groups[g].id = "3" /\ groups[g].on = <<>>
    /\ \E g \in 1..Len(groups) : groups[g].id = "1" /\ groups[g].on = <<TRUE>>

-----------------------------------------------------------------------------
(* Properties of a group and its member lights after edits (SpecUnpair) *)

GroupEditNames == {"ToggleGroup", "SetGroupBrightness", "SetGroupColor"}

\* C23: right after ToggleGroup, SetGroupBrightness or SetGroupColor on a
\* group whose first member is a light of the store, the group shows the
\* brightness and the color that light shows, whatever was edited before
C23_GroupTracksFirst ==
    last.msg \in GroupEditNames =>
        \A g \in 1..Len(groups) :
            (groups[g].id = last.id /\ FirstMember(g) # 0) =>
                /\ groups[g].brightness = lights[FirstMember(g)].brightness
                /\ groups[g].color = lights[FirstMember(g)].color

-----------------------------------------------------------------------------
(* Properties of the on-state of a group (SpecToggle) *)

\* every member id of the g-th group finds a light whose on-state is known
MembersKnown(g) ==
    \A j \in 1..Len(groups[g].lights) :
        /\ Find(lights, groups[g].lights[j]) # 0
        /\ lights[Find(lights, groups[g].lights[j])].on # <<>>

AnyMemberOn(g) ==
    \E j \in 1..Len(groups[g].lights) :
        /\ Find(lights, groups[g].lights[j]) # 0
        /\ lights[Find(lights, groups[g].lights[j])].on = <<TRUE>>

\* C24: in every state reached by fetches and toggles, a group whose on-state
\* is known and whose member lights all have a known on-state is shown on
\* exactly when one of its member lights is on
C24_OnIsAnyMemberOn ==
    \A g \in 1..Len(groups) :
        (groups[g].on # <<>> /\ MembersKnown(g)) =>
            (groups[g].on = <<TRUE>> <=> AnyMemberOn(g))

-----------------------------------------------------------------------------
(* Properties of discovery and pairing (SpecPair) *)

\* a step that handles the result `name` of a task
Delivered(name) == last'.msg = name /\ tasks' # tasks

FailedToPair ==
    /\ Delivered("BridgeDiscoveryFinished") \/ Delivered("PairBridgeFinished")
    /\ ~last'.ok

PairingStep ==
    /\ Delivered("BridgeDiscoveryFinished") => is_scanning' = FALSE
    /\ FailedToPair =>
          /\ last_discovery' = << <<"Err", last'.got>> >>
          /\ config' = config
          /\ ~panicked'

\* C27: BridgeDiscoveryFinished(Err e) and PairBridgeFinished(Err e) leave Err e
\* in last_discovery and the stored address and token as they were, and do not
\* stop the applet; any discovery result, Ok or Err, ends the scan, so that
\* while no token is stored DiscoverBridge can be submitted again
C27_FailuresNonFatal ==
    /\ []((last.msg = "BridgeDiscoveryFinished" /\ get_username(config) = None /\ Room)
             => ENABLED OnDiscoverBridge)
    /\ [][PairingStep]_vars

\* the registration was refused: the error is shown and the address found
\* before is still stored
C27_Witness ==
    /\ last.msg = "PairBridgeFinished" /\ ~last.ok
    /\ last_discovery = << <<"Err", "link button not pressed">> >>
    /\ config = [bridge_ip |-> <<"192.168.1.9">>, username |-> <<>>]
    /\ ~is_scanning

-----------------------------------------------------------------------------
(* Properties of the printed lines (SpecLog) *)

\* the lines that report an error
ErrorLines ==
    {"Error discovering bridges", "Error loading lights", "Error loading groups",
     "Error loading scenes", "Error activating scene", "Error"}

\* the results of a fetch or of a push
FetchOrPushResults == LoadedNames \cup {"ResponsesModified", "SceneActivated"}

\* a stale commit prints nothing and returns no task, so that no result, error
\* or ResponsesModified can follow from it
StaleIsSilent ==
    (Handles(ApplyNames) /\ IsStale) => (last'.out = {} /\ last'.ret = EmptyBag)

\* C25 as stated: a commit whose key has no Pending Edit or another counter
\* prints nothing and leads to no result; an error line is printed only for
\* the failed result of a fetch or of a push
C25_OnlyFetchAndPushLogErrors ==
    /\ [](last.out \cap ErrorLines # {} => (last.msg \in FetchOrPushResults /\ ~last.ok))
    /\ [][StaleIsSilent]_vars

\* C25 amended: a commit whose key has no Pending Edit or another counter
\* prints nothing and leads to no result; an error line is printed only for
\* the failed result of a fetch, of a push or of the bridge discovery
C25_SilentStaleCommit ==
    /\ [](last.out \cap ErrorLines # {} =>
             (last.msg \in FetchOrPushResults \cup {"BridgeDiscoveryFinished"} /\ ~last.ok))
    /\ [][StaleIsSilent]_vars

\* the second of two edits of light 1 is pending and the commit of the first
\* has just been handled in silence
C25_Witness ==
    /\ last.msg = "ApplyLightBrightness" /\ last.id = "1" /\ last.cnt = 1
    /\ last.out = {} /\ last.ret = EmptyBag
    /\ pending_light_brightness = {[id |-> "1", value |-> 401, counter |-> 2]}

-----------------------------------------------------------------------------
(* Properties of the colour picker (SpecPicker) *)

\* a step that handles ToggleColorPicker: it always changes the selection
Toggles == last'.msg = "ToggleColorPicker" /\ active_color_picker_item' # active_color_picker_item

\* the popup that was open is closed by the step
PopupClosedByStep ==
    /\ color_picker_popup' = <<>>
    /\ \E t \in BagToSet(last'.ret) : t.op = "destroy_popup"

SelectionStep ==
    Toggles =>
        IF active_color_picker_item = <<last'.got>>
        THEN active_color_picker_item' = <<>>
        ELSE active_color_picker_item' = <<last'.got>>

\* naming the active item leaves the popup closed, whether it was open or not
ActiveNamedCloses ==
    (Toggles /\ active_color_picker_item = <<last'.got>>) => color_picker_popup' = <<>>

\* while the popup is open, naming any item closes it
OpenPopupCloses ==
    (Toggles /\ color_picker_popup # <<>>) => PopupClosedByStep

\* a selected item whose popup is closed gets its popup, unless it is
\* deselected first
Reopens ==
    \A x \in PickerItems :
        (active_color_picker_item = <<x>> /\ color_picker_popup = <<>>)
            ~> (color_picker_popup # <<>> \/ active_color_picker_item # <<x>>)

\* C26: the selection is one item or none; naming another item while the
\* popup is open selects it and closes the popup, which is opened again later
\* for the new selection; naming the active item empties the selection and
\* the popup is closed
C26_PickerSelectionClosed ==
    /\ [][SelectionStep /\ OpenPopupCloses /\ ActiveNamedCloses]_vars
    /\ Reopens

-----------------------------------------------------------------------------
(* Properties of the pending maps in the long run (SpecDrain) *)

AllDrained ==
    /\ pending_light_brightness = {} /\ pending_group_brightness = {}
    /\ pending_light_color = {} /\ pending_group_color = {}

\* a step that is not an accepted edit
NoEdit == debounce_counter' = debounce_counter

\* C28: when from some point on no edit is submitted, and every commit timer
\* elapses and its commit is handled, the four pending maps are empty from
\* some point on, with or without a configured bridge
C28_PendingDrain == (<>[][NoEdit]_vars) => <>[]AllDrained

\* the bridge was unpaired between an edit and its commit, and the commit
\* has emptied the maps without a push
C28_Witness ==
    /\ AllDrained /\ debounce_counter = MaxEdits
    /\ last.msg \in ApplyNames /\ last.ret = EmptyBag /\ last.cnt = MaxEdits
    /\ config.bridge_ip = <<>>
    /\ \A t \in BagToSet(tasks) : t.op # "sleep"

-----------------------------------------------------------------------------
(* Properties of an edit during a refresh (SpecReload) *)

\* C29: a light of the store that has a pending brightness edit shows the
\* pending value, truncated to an integer, also when the result of a fetch
\* started before the edit is processed before the commit
C29_ShownIsPending ==
    \A e \in pending_light_brightness :
        \A i \in 1..Len(lights) :
            lights[i].id = e.id => lights[i].brightness = <<e.value \div 2>>

-----------------------------------------------------------------------------
(* Properties of the keys of the pending maps (SpecEdit) *)

\* the map an edit or a commit message works on
KeyClassOf(name) ==
    CASE name \in {"SetLightBrightness", "ApplyLightBrightness"} -> "light_brightness"
      [] name \in {"SetGroupBrightness", "ApplyGroupBrightness"} -> "group_brightness"
      [] name \in {"SetLightColor", "ApplyLightColor"}           -> "light_color"
      [] OTHER                                                    -> "group_color"

\* every entry but the one of the key (cls, id) is what it was
OthersUntouched(cls, id) ==
    /\ {e \in PendingAfter(cls) : e.id # id} = {e \in PendingOf(cls) : e.id # id}
    /\ \A other \in PendingMaps \ {cls} : PendingAfter(other) = PendingOf(other)

EditOrCommit == Handles(SetNames \cup ApplyNames)

\* a commit of a light brightness whose entry is still the one it was issued for
LightCommitDue ==
    /\ Handles({"ApplyLightBrightness"})
    /\ \E e \in pending_light_brightness : e.id = last'.id /\ e.counter = last'.cnt

LightPushed ==
    \E t \in BagToSet(last'.ret) :
        t.op = "set_light_state" /\ t.id = last'.id /\ IsSome(t.mod.brightness)

\* C30: an edit or a commit for one key leaves the Pending Edit of every other
\* key unchanged: the same id in the other kind, the other attribute class of
\* the same resource, the other ids of the same map, and the member lights of
\* an edited group; so the commit of a member light that was edited before
\* its group still finds its entry and pushes (the bridge stays configured
\* throughout SpecEdit; what a commit does without one is C17's matter)
C30_KeysIndependent ==
    /\ [][EditOrCommit => OthersUntouched(KeyClassOf(last'.msg), last'.id)]_vars
    /\ [][LightCommitDue => LightPushed]_vars

\* light 1 was edited, then its group 1, and the commit of the light pushed
\* while the edit of the group was still pending
C30_Witness ==
    /\ last.msg = "ApplyLightBrightness" /\ last.id = "1"
    /\ \E t \in BagToSet(last.ret) : t.op = "set_light_state" /\ t.id = "1"
    /\ \E e \in pending_group_brightness : e.id = "1" /\ e.counter > last.cnt

-----------------------------------------------------------------------------
(* Properties of an unpaired applet (SpecUnpair) *)

Unpaired == config.bridge_ip = None /\ config.username = None

StoreEmpty == lights = <<>> /\ groups = <<>> /\ scenes = <<>>

\* a commit handled while unpaired started nothing
NoPushByLateCommit == (Unpaired /\ Handles(ApplyNames)) => last'.ret = EmptyBag

\* C31: once UnpairBridge has been processed the address and the token are
\* absent and the three lists are empty, and they stay empty while the applet
\* is unpaired, also when the result of a fetch that was in flight at the
\* unpairing is processed afterwards; and no commit that was still scheduled
\* starts a push
C31_UnpairStaysCleared ==
    /\ [](Unpaired => StoreEmpty)
    /\ [][NoPushByLateCommit]_vars

-----------------------------------------------------------------------------
(* Properties of a commit without configuration (SpecDrop) *)

\* a commit whose counter is the stored one, handled without address or token
DroppedCommit == Matches /\ ~Configured

\* nothing is returned, the entry is removed, the store is as it was
EditDropped ==
    /\ EntryRemoved
    /\ last'.ret = EmptyBag
    /\ UNCHANGED <<lights, groups, scenes>>

\* the pushes of edits that the step started
StartedPushes ==
    {t \in BagToSet(tasks') :
        /\ IsPush(t) /\ t.cls # "" /\ t.res = "inflight"
        /\ CopiesIn(t, tasks') > CopiesIn(t, tasks)}

\* a push of an edit is started only by the commit of its own counter, handled
\* with the bridge configured while the entry of that counter was stored
PushOnlyByOwnCommit ==
    \A t \in StartedPushes :
        /\ Matches /\ Configured
        /\ t.cls = ClassOf(last'.msg) /\ t.id = last'.id /\ t.cnt = last'.cnt

\* C32: a commit whose counter matches the Pending Edit of its key, handled
\* while the address or the token is absent, removes the Pending Edit, issues
\* no push and schedules no commit, and leaves the displayed value as it is;
\* the edit is not pushed later either, since only the commit of a stored
\* counter starts a push, also after the bridge is configured again
C32_DropWithoutConfig ==
    /\ [][DroppedCommit => EditDropped]_vars
    /\ [][PushOnlyByOwnCommit]_vars

\* the commit of the edit of light 1 has just been handled with no bridge
\* configured while light 1 was shown (a fetch from before the unpairing had
\* filled the list again): nothing was returned and the entry is gone
C32_Witness ==
    /\ last.msg = "ApplyLightBrightness" /\ last.id = "1" /\ last.ret = EmptyBag
    /\ ~Configured
    /\ Find(lights, "1") # 0
    /\ LET b == burst[<<"light_brightness", "1">>]
       IN  b.n > 0 /\ b.fired /\ ~b.cfg /\ b.pushes = 0 /\ b.start = last.cnt
    /\ pending_light_brightness = {}

-----------------------------------------------------------------------------
(* Properties of scene activation (SpecScene) *)

ActivatesUnknown == Handles({"ActivateScene"}) /\ Find(scenes, last'.id) = 0
ActivatesKnown == Handles({"ActivateScene"}) /\ Find(scenes, last'.id) # 0

\* nothing is returned and no variable of the model changes
NothingHappens ==
    /\ last'.ret = EmptyBag /\ tasks' = tasks
    /\ UNCHANGED <<config, lights, groups, scenes, popup, more_menu_popup,
                   active_color_picker_item, color_picker_popup,
                   pending_light_brightness, pending_group_brightness,
                   pending_light_color, pending_group_color, debounce_counter,
                   is_scanning, last_discovery>>

\* the one push of a scene of the list, to the group id stored with it
PushOfStoredGroup ==
    LET scene == scenes[Find(scenes, last'.id)]
    IN  IF Configured
        THEN /\ BagCardinality(last'.ret) = 1
             /\ \A t \in BagToSet(last'.ret) :
                   /\ t.op = "set_group_state" /\ t.id = scene.group
                   /\ t.mod = with_scene(NoMod, last'.id)
                   /\ t.then = "SceneActivated"
        ELSE last'.ret = EmptyBag

\* C33: ActivateScene with an id that is not in the scenes list issues no
\* push, schedules no refresh and leaves the model unchanged; for a scene of
\* the list the single push goes to the group id stored with the scene at the
\* last scenes fetch, the empty id when the scene had no group
C33_UnknownScene ==
    /\ [][ActivatesUnknown => NothingHappens]_vars
    /\ [][ActivatesKnown => PushOfStoredGroup]_vars

\* after a fetch that moved s1 to group 2, s1 was pushed to group 2; the push
\* of s2, which had no group, is in flight to the empty id
C33_Witness ==
    /\ last.msg = "ActivateScene" /\ last.id = "s1"
    /\ \E t \in BagToSet(last.ret) : t.op = "set_group_state" /\ t.id = "2"
    /\ \E t \in BagToSet(tasks) : t.op = "set_group_state" /\ t.id = "" /\ t.mod.scene = <<"s2">>

-----------------------------------------------------------------------------
(* Properties of the colour-picker retry (SpecRetry) *)

RectangleStep == last'.msg = "RectanglesUpdated" /\ tasks' # tasks

\* the step handled TryToggleColorPicker and returned the same message
Reposts ==
    /\ last'.msg = "TryToggleColorPicker"
    /\ \E t \in BagToSet(last'.ret) : t.then = "TryToggleColorPicker"

RetryPending == \E t \in BagToSet(tasks) : t.then = "TryToggleColorPicker"

\* C34: TryToggleColorPicker posts itself again only while no rectangle is
\* recorded for button 0, and once rectangle updates stop arriving the chain
\* of TryToggleColorPicker messages comes to an end
C34_RetryTerminates ==
    /\ [][Reposts => 0 \notin color_button_rectangles]_vars
    /\ (<>[][~RectangleStep]_vars) => <>[]~RetryPending

-----------------------------------------------------------------------------
(* Properties of the menus (SpecMenu) *)

MenuNames == {"ToggleLightsMenu", "ToggleGroupsMenu", "ToggleScenesMenu"}

\* the position in `menus` of the menu a message toggles
MenuOf(name) ==
    CASE name = "ToggleLightsMenu" -> 1
      [] name = "ToggleGroupsMenu" -> 2
      [] OTHER                     -> 3

AtMostOneExpanded == Cardinality({i \in 1..3 : menus[i]}) <= 1

\* what the three flags are after the menu at position m was toggled
MenuToggled ==
    LET m == MenuOf(last'.msg)
        before == <<lights_menu_expanded, groups_menu_expanded, scenes_menu_expanded>>
        after == <<lights_menu_expanded', groups_menu_expanded', scenes_menu_expanded'>>
    IN  IF ~before[m]
        THEN after = [i \in 1..3 |-> i = m]
        ELSE after = [i \in 1..3 |-> FALSE]

MenuStep ==
    /\ last'.msg \in MenuNames
    /\ <<lights_menu_expanded', groups_menu_expanded', scenes_menu_expanded'>> # menus

\* C35: at most one of the lights, groups and scenes menus is expanded;
\* toggling a collapsed menu expands it and collapses the other two, toggling
\* an expanded menu collapses it and leaves the others collapsed
C35_MenuExclusive ==
    /\ []AtMostOneExpanded
    /\ [][MenuStep => MenuToggled]_vars

\* the groups menu was toggled while the lights menu was expanded
C35_Witness ==
    /\ last.msg = "ToggleGroupsMenu" /\ last.got = <<TRUE, FALSE, FALSE>>
    /\ menus = <<FALSE, TRUE, FALSE>>

====
